---- MODULE Spec2Model ----
(***************************************************************************)
(* Model of the diff / file-list compression engine of the Qoder GitHub    *)
(* MCP server (pkg/qoder/diff_compressor.go) and of the text helpers it    *)
(* relies on.  Text is modelled as TLA+ strings; Go's strings.* functions  *)
(* are written out character by character.                                 *)
(***************************************************************************)
EXTENDS Integers, Sequences, FiniteSets, TLC

VARIABLES
    \* updateIssueComment / updateReviewComment and another editor of the comment
    uHandler,        \* which of the two functions runs
    uStored,         \* the body of the comment GitHub holds
    uLatest,         \* the parts of the body the latest other edit (or the author) wrote
    uNew,            \* newContent
    uUpdated,        \* updatedBody
    uEdits,          \* how many other edits were made
    uWritten,        \* whether EditComment changed the stored comment
    uResult,         \* the tool result
    upc,
    \* replyToReviewComment
    rComments,       \* the review comments GitHub holds, by id
    rStart,          \* the commentID argument
    rCurrent,        \* currentID
    rVisited,        \* visited
    rRoot,           \* rootCommentID
    rErr,            \* the error of findRootReviewComment
    rCreated,        \* the in_reply_to ids of the replies created
    rpc,
    \* one call of a pure function
    fn,              \* the function called
    fnArg,           \* its arguments
    fnRes,           \* what it returned
    fnpc,
    \* the add_comment_to_pending_review handlers
    cHandler,        \* which of the two handlers runs
    cBody,           \* params.Body
    cLine,           \* params.Line
    cAdjustedBody,   \* the local adjustedBody
    cAdjustErr,      \* the error adjustSuggestionIndentation returned
    cAdjustCalls,    \* how often adjustSuggestionIndentation was called
    cPosted,         \* the bodies sent with addPullRequestReviewThread
    cResult,         \* how the handler ended
    cpc,             \* position inside the handler
    \* adjustSuggestionIndentation
    iBody,           \* the argument body
    iFenced,         \* whether body was built around a suggestion block
    iPre,            \* the text before the opening fence
    iSug,            \* the lines between the fences
    iPost,           \* the text after the closing fence
    iLine,           \* the argument line
    iFetch,          \* what the GitHub API answers for the file content
    iOut,            \* the returned string
    iErr,            \* the returned error
    ipc,
    \* addLineNumbersToNewLines
    aIn,             \* the argument diffContent
    aOut,            \* the returned string
    aErr,            \* the returned error
    apc,
    \* FileListCompressor.isDeletionOnlyFile
    dFile,           \* the argument
    dResult,         \* its result
    dpc,
    \* DiffCompressor.CompressDiff
    rawDiff,        \* the argument of the running call
    maxWords,       \* DiffCompressor.maxWords
    maxFileWords,   \* DiffCompressor.maxFileWords
    parsed,         \* what parseDiffIntoFiles returned at line 78
    files,          \* the local slice `files`
    result,         \* returned string
    err,            \* returned error
    pc,             \* position inside CompressDiff
    ret,            \* which return statement was taken (0 = fast path, 1..4)
    run,            \* 1 = first call, 2 = call on the first call's output
    firstOut,       \* output of the first call
    firstRet,       \* return statement taken by the first call
    \* hasOnlyDeletions, called on a raw or on an annotated section
    hRaw,           \* the raw unified-diff section
    hFlavor,        \* "raw" or "annotated"
    hContent,       \* the argument of hasOnlyDeletions
    hResult,        \* its result
    hpc,
    \* FileListCompressor.CompressFileList
    heap,            \* the CommitFile objects, by address
    flFiles,         \* the argument: addresses of the caller's records
    flBefore,        \* the caller's records as they were at the call
    flMaxTotal,      \* FileListCompressor.maxTotalWords
    flMaxFile,       \* FileListCompressor.maxFileWords
    compressedFiles, \* the local slice of copies
    flResult,        \* the returned slice
    flpc,            \* position inside CompressFileList
    flRet            \* which return statement was taken (0 = fast path, 1..4)

diffVars == <<rawDiff, maxWords, maxFileWords, parsed, files, result, err, pc, ret, run, firstOut, firstRet>>

delVars == <<hRaw, hFlavor, hContent, hResult, hpc>>

listVars == <<heap, flFiles, flBefore, flMaxTotal, flMaxFile, compressedFiles, flResult, flpc, flRet>>

onlyVars == <<dFile, dResult, dpc>>

annotVars == <<aIn, aOut, aErr, apc>>

indentVars == <<iBody, iFenced, iPre, iSug, iPost, iLine, iFetch, iOut, iErr, ipc>>

commentVars == <<cHandler, cBody, cLine, cAdjustedBody, cAdjustErr, cAdjustCalls, cPosted, cResult, cpc>>

callVars == <<fn, fnArg, fnRes, fnpc>>

replyVars == <<rComments, rStart, rCurrent, rVisited, rRoot, rErr, rCreated, rpc>>

updateVars == <<uHandler, uStored, uLatest, uNew, uUpdated, uEdits, uWritten, uResult, upc>>

vars == <<diffVars, delVars, listVars, onlyVars, annotVars, indentVars, commentVars, callVars, replyVars, updateVars>>

\* what the actions of one component leave alone
notDiffVars == <<delVars, listVars, onlyVars, annotVars, indentVars, commentVars, callVars, replyVars, updateVars>>
notDelVars == <<diffVars, listVars, onlyVars, annotVars, indentVars, commentVars, callVars, replyVars, updateVars>>
notListVars == <<diffVars, delVars, onlyVars, annotVars, indentVars, commentVars, callVars, replyVars, updateVars>>
notOnlyVars == <<diffVars, delVars, listVars, annotVars, indentVars, commentVars, callVars, replyVars, updateVars>>
notAnnotVars == <<diffVars, delVars, listVars, onlyVars, indentVars, commentVars, callVars, replyVars, updateVars>>
notIndentVars == <<diffVars, delVars, listVars, onlyVars, annotVars, commentVars, callVars, replyVars, updateVars>>
notCommentVars == <<diffVars, delVars, listVars, onlyVars, annotVars, indentVars, callVars, replyVars, updateVars>>
notCallVars == <<diffVars, delVars, listVars, onlyVars, annotVars, indentVars, commentVars, replyVars, updateVars>>
notReplyVars == <<diffVars, delVars, listVars, onlyVars, annotVars, indentVars, commentVars, callVars, updateVars>>
notUpdateVars == <<diffVars, delVars, listVars, onlyVars, annotVars, indentVars, commentVars, callVars, replyVars>>

(***************************************************************************)
(* Bounds                                                                  *)
(***************************************************************************)
MaxFiles == 3
MaxTotalBudget == 11
MaxFileBudget == 10
MaxBodyLines == 2
MaxListLen == 3
MaxListTotal == 12
MaxListFile == 10
MaxPatchLines == 2
MaxAnnotLines == 3
MaxSuggestionLines == 2
MaxTargetLine == 3
MaxBlockLines == 3
MaxBodySegments == 4
MaxTrimFiles == 3
MaxTrimWords == 4
MaxComments == 3
MaxEdits == 2

Nil == "<nil>"
NoReturn == -1

(***************************************************************************)
(* Go string primitives                                                    *)
(***************************************************************************)
Char(s, i) == SubSeq(s, i, i)

Suffix(s, i) == SubSeq(s, i, Len(s))

HasPrefix(s, p) == Len(s) >= Len(p) /\ SubSeq(s, 1, Len(p)) = p

IsSpace(c) == c = " " \/ c = "\n" \/ c = "\t" \/ c = "\r" \/ c = "\f"

\* strings.IndexByte on s[i:], as an index into s: the first k >= i with
\* s[k] = c, or 0 when there is none
IndexFrom(s, c, i) ==
    IF \E k \in i..Len(s) : Char(s, k) = c
    THEN CHOOSE k \in i..Len(s) :
            Char(s, k) = c /\ \A j \in i..(k - 1) : Char(s, j) # c
    ELSE 0

\* the first k >= i where s[k] is white space (space = TRUE) or is not
\* (space = FALSE), or 0 when there is none
SpaceFrom(s, space, i) ==
    IF \E k \in i..Len(s) : IsSpace(Char(s, k)) = space
    THEN CHOOSE k \in i..Len(s) :
            /\ IsSpace(Char(s, k)) = space
            /\ \A j \in i..(k - 1) : IsSpace(Char(s, j)) # space
    ELSE 0

\* strings.Split(s, sep) for a one-character separator: the piece that
\* starts at `start` ends before the separator at k (k = 0: no separator left)
RECURSIVE SplitFrom(_, _, _, _)
SplitFrom(s, sep, start, k) ==
    IF k = 0 THEN <<SubSeq(s, start, Len(s))>>
    ELSE <<SubSeq(s, start, k - 1)>> \o SplitFrom(s, sep, k + 1, IndexFrom(s, sep, k + 1))

Split(s, sep) == SplitFrom(s, sep, 1, IndexFrom(s, sep, 1))

RECURSIVE Join(_, _)
Join(parts, sep) ==
    IF Len(parts) = 0 THEN ""
    ELSE IF Len(parts) = 1 THEN parts[1]
    ELSE parts[1] \o sep \o Join(Tail(parts), sep)

\* strings.Fields: the maximal runs of non-space characters; the next field
\* starts at b (b = 0: none left) and ends before the space at e (e = 0: at
\* the end of s)
RECURSIVE FieldsFrom(_, _, _)
FieldsNext(s, b) == FieldsFrom(s, b, IF b = 0 THEN 0 ELSE SpaceFrom(s, TRUE, b))

FieldsFrom(s, b, e) ==
    IF b = 0 THEN <<>>
    ELSE IF e = 0 THEN <<SubSeq(s, b, Len(s))>>
    ELSE <<SubSeq(s, b, e - 1)>> \o FieldsNext(s, SpaceFrom(s, FALSE, e + 1))

Fields(s) == FieldsNext(s, SpaceFrom(s, FALSE, 1))

RECURSIVE TrimLeft(_)
TrimLeft(s) == IF Len(s) > 0 /\ IsSpace(Char(s, 1)) THEN TrimLeft(Tail(s)) ELSE s

RECURSIVE TrimRight(_)
TrimRight(s) ==
    IF Len(s) > 0 /\ IsSpace(Char(s, Len(s)))
    THEN TrimRight(SubSeq(s, 1, Len(s) - 1)) ELSE s

TrimSpace(s) == TrimRight(TrimLeft(s))

RECURSIVE Contains(_, _)
Contains(s, sub) ==
    IF Len(s) < Len(sub) THEN FALSE
    ELSE HasPrefix(s, sub) \/ Contains(Tail(s), sub)

UpperChars == "ABCDEFGHIJKLMNOPQRSTUVWXYZ"
LowerChars == "abcdefghijklmnopqrstuvwxyz"

LowerChar(c) ==
    LET k == IndexFrom(UpperChars, c, 1)
    IN  IF k = 0 THEN c ELSE Char(LowerChars, k)

RECURSIVE ToLower(_)
ToLower(s) == IF s = "" THEN "" ELSE LowerChar(Head(s)) \o ToLower(Tail(s))

\* filepath.Ext: the suffix starting at the last dot of the last path element
RECURSIVE ExtFrom(_, _)
ExtFrom(path, i) ==
    IF i < 1 \/ Char(path, i) = "/" THEN ""
    ELSE IF Char(path, i) = "." THEN Suffix(path, i)
    ELSE ExtFrom(path, i - 1)

Ext(path) == ExtFrom(path, Len(path))

RECURSIVE StripSlashes(_)
StripSlashes(p) ==
    IF Len(p) > 0 /\ Char(p, Len(p)) = "/"
    THEN StripSlashes(SubSeq(p, 1, Len(p) - 1)) ELSE p

RECURSIVE LastElem(_, _)
LastElem(p, i) ==
    IF i < 1 THEN p
    ELSE IF Char(p, i) = "/" THEN Suffix(p, i + 1)
    ELSE LastElem(p, i - 1)

\* filepath.Base
Base(path) ==
    IF path = "" THEN "."
    ELSE LET p == StripSlashes(path)
             e == LastElem(p, Len(p))
         IN  IF e = "" THEN "/" ELSE e

RECURSIVE SumSeq(_)
SumSeq(s) == IF Len(s) = 0 THEN 0 ELSE Head(s) + SumSeq(Tail(s))

(***************************************************************************)
(* DiffCompressor                                                          *)
(***************************************************************************)
DiffGitPrefix == "diff --git"

\* extractPathFromDiffLine, with a malformed header yielding the line itself
extractPathFromDiffLine_KeepLine(line) ==
    IF ~HasPrefix(line, DiffGitPrefix) THEN ""
    ELSE LET parts == Fields(line)
         IN  IF Len(parts) >= 3
             THEN (IF HasPrefix(parts[3], "a/") THEN Suffix(parts[3], 3) ELSE parts[3])
             ELSE line

extractPathFromDiffLine(line) ==
    IF ~HasPrefix(line, DiffGitPrefix) THEN ""
    ELSE LET parts == Fields(line)
         IN  IF Len(parts) >= 3
             THEN (IF HasPrefix(parts[3], "a/") THEN Suffix(parts[3], 3) ELSE parts[3])
             ELSE ""

countWords(content) == Len(Fields(content))

excludedFiles ==
    {"package-lock.json", "yarn.lock", "pnpm-lock.yaml", "go.sum",
     "Gemfile.lock", "Cargo.lock", "composer.lock", "poetry.lock"}

sourceExts ==
    {".go", ".py", ".js", ".jsx", ".ts", ".tsx", ".java", ".c", ".cpp", ".cc",
     ".h", ".hpp", ".cs", ".rb", ".php", ".swift", ".kt", ".rs", ".scala",
     ".sh", ".bash", ".zsh", ".fish", ".ps1", ".r", ".m", ".mm", ".sql",
     ".html", ".css", ".scss", ".sass", ".less", ".vue", ".svelte"}

configFiles ==
    {".yml", ".yaml", ".json", ".xml", ".toml", ".ini", ".cfg", ".conf",
     ".properties", ".env", "Dockerfile", "Makefile", ".gitignore"}

\* isSourceCodeFile with the extension lists consulted before the lock files
isSourceCodeFile_ListsFirst(path) ==
    LET ext == ToLower(Ext(path))
        base == Base(path)
    IN  IF ext \in sourceExts THEN TRUE
        ELSE IF ext \in configFiles \/ base \in configFiles THEN TRUE
        ELSE IF base \in excludedFiles THEN FALSE
        ELSE IF ext = "" /\ base \in {"Makefile", "Dockerfile", "Jenkinsfile", "Rakefile"} THEN TRUE
        ELSE IF Contains(ToLower(path), "readme") THEN TRUE
        ELSE FALSE

isSourceCodeFile(path) ==
    LET ext == ToLower(Ext(path))
        base == Base(path)
    IN  IF base \in excludedFiles THEN FALSE
        ELSE IF ext \in sourceExts THEN TRUE
        ELSE IF ext \in configFiles \/ base \in configFiles THEN TRUE
        ELSE IF ext = "" /\ base \in {"Makefile", "Dockerfile", "Jenkinsfile", "Rakefile"} THEN TRUE
        ELSE IF Contains(ToLower(path), "readme") THEN TRUE
        ELSE FALSE

\* lines 291-311 for a non-empty line whose strings.Fields are `parts`;
\* flags = <<hasAdditions, hasDeletions>>
lineFlags(line, parts, flags) ==
    LET a1 == HasPrefix(line, "+") /\ ~HasPrefix(line, "+++")
        d1 == ~a1 /\ HasPrefix(line, "-") /\ ~HasPrefix(line, "---")
        enh == Len(line) > 4 /\ Len(TrimSpace(line)) > 0
        a2 == enh /\ Len(parts) >= 2 /\ HasPrefix(parts[2], "+")
        d2 == enh /\ Len(parts) = 1 /\ HasPrefix(parts[1], "-")
    IN  <<flags[1] \/ a1 \/ a2, flags[2] \/ d1 \/ d2>>

\* one iteration of the loop of hasOnlyDeletions
hasOnlyDeletionsLine(line, flags) ==
    IF Len(line) = 0 THEN flags ELSE lineFlags(line, Fields(line), flags)

RECURSIVE hasOnlyDeletionsLoop(_, _)
hasOnlyDeletionsLoop(lines, flags) ==
    IF Len(lines) = 0 THEN flags
    ELSE hasOnlyDeletionsLoop(Tail(lines), hasOnlyDeletionsLine(Head(lines), flags))

hasOnlyDeletions(content) ==
    LET flags == hasOnlyDeletionsLoop(Split(content, "\n"), <<FALSE, FALSE>>)
    IN  flags[2] /\ ~flags[1]

\* the fields set at lines 124-127 and 142-145
DiffFileOf(path, content) ==
    [Path |-> path,
     Content |-> content,
     WordCount |-> countWords(content),
     IsSourceCode |-> isSourceCodeFile(path),
     HasOnlyDeletions |-> hasOnlyDeletions(content)]

\* the DiffFile saved when a section ends
DiffFile(path, contentLines) == DiffFileOf(path, Join(contentLines, "\n"))

\* the loop of parseDiffIntoFiles; cur = <<>> while currentFile == nil,
\* <<path>> otherwise
RECURSIVE parseLoop(_, _, _, _)
parseLoop(lines, acc, cur, curContent) ==
    IF Len(lines) = 0
    THEN (IF cur # <<>> THEN Append(acc, DiffFile(cur[1], curContent)) ELSE acc)
    ELSE LET line == Head(lines)
         IN  IF HasPrefix(line, DiffGitPrefix)
             THEN parseLoop(Tail(lines),
                            IF cur # <<>> THEN Append(acc, DiffFile(cur[1], curContent)) ELSE acc,
                            <<extractPathFromDiffLine(line)>>,
                            <<line>>)
             ELSE IF cur # <<>>
             THEN parseLoop(Tail(lines), acc, cur, Append(curContent, line))
             ELSE parseLoop(Tail(lines), acc, cur, curContent)

parseDiffIntoFiles(raw) == parseLoop(Split(raw, "\n"), <<>>, <<>>, <<>>)

filterSourceCodeFiles(fs) == SelectSeq(fs, LAMBDA f : f.IsSourceCode)

\* filterLargeFiles that keeps every file
filterLargeFiles_KeepAll(fs, maxFile) == fs

filterLargeFiles(fs, maxFile) == SelectSeq(fs, LAMBDA f : f.WordCount <= maxFile)

filterDeletionOnlyFiles(fs) == SelectSeq(fs, LAMBDA f : ~f.HasOnlyDeletions)

getTotalWords(fs) == SumSeq([i \in 1..Len(fs) |-> fs[i].WordCount])

hasOversizedFiles(fs, maxFile) == \E i \in 1..Len(fs) : fs[i].WordCount > maxFile

\* isWithinLimits testing the total only
isWithinLimits_TotalOnly(fs, maxTotal, maxFile) == getTotalWords(fs) <= maxTotal

isWithinLimits(fs, maxTotal, maxFile) ==
    /\ getTotalWords(fs) <= maxTotal
    /\ \A i \in 1..Len(fs) : fs[i].WordCount <= maxFile

\* reconstructDiff concatenating the sections without a separator
reconstructDiff_NoSep(fs) ==
    IF Len(fs) = 0 THEN ""
    ELSE Join([i \in 1..Len(fs) |-> fs[i].Content], "")

reconstructDiff(fs) ==
    IF Len(fs) = 0 THEN ""
    ELSE Join([i \in 1..Len(fs) |-> fs[i].Content], "\n")

\* sort.Slice(files, WordCount descending): any arrangement of the slice in
\* non-increasing WordCount order (the sort is not stable)
Arrangements(n) == {p \in [1..n -> 1..n] : \A i, j \in 1..n : i # j => p[i] # p[j]}

SortedByWordsDesc(fs) ==
    {s \in {[i \in 1..Len(fs) |-> fs[p[i]]] : p \in Arrangements(Len(fs))} :
        \A i \in 1..(Len(s) - 1) : s[i].WordCount >= s[i + 1].WordCount}

\* the keep loop of trimToMaxWords walking the sorted slice from its start
RECURSIVE trimLoop_LargestFirst(_, _, _, _, _)
trimLoop_LargestFirst(sorted, i, res, currentTotal, maxTotal) ==
    IF i < 1 THEN res
    ELSE LET f == sorted[Len(sorted) + 1 - i]
         IN  IF currentTotal + f.WordCount <= maxTotal
             THEN trimLoop_LargestFirst(sorted, i - 1, Append(res, f),
                                        currentTotal + f.WordCount, maxTotal)
             ELSE trimLoop_LargestFirst(sorted, i - 1, res, currentTotal, maxTotal)

\* the keep loop of trimToMaxWords, walking the sorted slice from its end
RECURSIVE trimLoop(_, _, _, _, _)
trimLoop(sorted, i, res, currentTotal, maxTotal) ==
    IF i < 1 THEN res
    ELSE IF currentTotal + sorted[i].WordCount <= maxTotal
         THEN trimLoop(sorted, i - 1, Append(res, sorted[i]),
                       currentTotal + sorted[i].WordCount, maxTotal)
         ELSE trimLoop(sorted, i - 1, res, currentTotal, maxTotal)

\* trimToMaxWords for one outcome `sorted` of the sort
trimToMaxWords(fs, sorted, maxTotal) ==
    IF getTotalWords(fs) <= maxTotal THEN fs
    ELSE trimLoop(sorted, Len(sorted), <<>>, 0, maxTotal)

(***************************************************************************)
(* Line annotator (tools.go)                                               *)
(***************************************************************************)
Digits == "0123456789"

IsDigit(c) == IndexFrom(Digits, c, 1) # 0

RECURSIVE AllDigits(_)
AllDigits(s) == s = "" \/ (IsDigit(Head(s)) /\ AllDigits(Tail(s)))

RECURSIVE DigitsValue(_, _)
DigitsValue(s, acc) ==
    IF s = "" THEN acc
    ELSE DigitsValue(Tail(s), acc * 10 + (IndexFrom(Digits, Head(s), 1) - 1))

\* strconv.Atoi: optional sign, then one or more decimal digits
Atoi(s) ==
    LET signed == Len(s) > 0 /\ Head(s) \in {"+", "-"}
        body == IF signed THEN Tail(s) ELSE s
    IN  IF body = "" \/ ~AllDigits(body) THEN [ok |-> FALSE, val |-> 0]
        ELSE [ok |-> TRUE,
              val |-> IF signed /\ Head(s) = "-" THEN 0 - DigitsValue(body, 0)
                      ELSE DigitsValue(body, 0)]

\* fmt.Sprintf("%d", n)
RECURSIVE NatToString(_)
NatToString(n) ==
    IF n < 10 THEN Char(Digits, n + 1)
    ELSE NatToString(n \div 10) \o Char(Digits, (n % 10) + 1)

Itoa(n) == IF n < 0 THEN "-" \o NatToString(0 - n) ELSE NatToString(n)

\* strings.Trim(s, "@ ")
RECURSIVE TrimAtSpace(_)
TrimAtSpace(s) ==
    IF Len(s) > 0 /\ Head(s) \in {"@", " "} THEN TrimAtSpace(Tail(s))
    ELSE IF Len(s) > 0 /\ Char(s, Len(s)) \in {"@", " "} THEN TrimAtSpace(SubSeq(s, 1, Len(s) - 1))
    ELSE s

\* parseRange with an omitted count read as 0
parseRange_ZeroDefault(part) ==
    IF IndexFrom(part, ",", 1) # 0
    THEN LET range == Split(part, ",")
             start == Atoi(range[1])
             count == Atoi(range[2])
         IN  IF ~start.ok THEN [ok |-> FALSE, start |-> 0, count |-> 0]
             ELSE IF ~count.ok THEN [ok |-> FALSE, start |-> 0, count |-> 0]
             ELSE [ok |-> TRUE, start |-> start.val, count |-> count.val]
    ELSE LET start == Atoi(part)
         IN  IF ~start.ok THEN [ok |-> FALSE, start |-> 0, count |-> 0]
             ELSE [ok |-> TRUE, start |-> start.val, count |-> 0]

\* one range "start[,count]" of a hunk header, after its sign was removed
parseRange(part) ==
    IF IndexFrom(part, ",", 1) # 0
    THEN LET range == Split(part, ",")
             start == Atoi(range[1])
             count == Atoi(range[2])
         IN  IF ~start.ok THEN [ok |-> FALSE, start |-> 0, count |-> 0]
             ELSE IF ~count.ok THEN [ok |-> FALSE, start |-> 0, count |-> 0]
             ELSE [ok |-> TRUE, start |-> start.val, count |-> count.val]
    ELSE LET start == Atoi(part)
         IN  IF ~start.ok THEN [ok |-> FALSE, start |-> 0, count |-> 0]
             ELSE [ok |-> TRUE, start |-> start.val, count |-> 1]

ChunkError == [ok |-> FALSE, oldStart |-> 0, oldLines |-> 0, newStart |-> 0, newLines |-> 0]

parseChunkHeader(header) ==
    LET parts == Fields(TrimAtSpace(header))
    IN  IF Len(parts) < 2 THEN ChunkError
        ELSE IF ~HasPrefix(parts[1], "-") THEN ChunkError
        ELSE LET old == parseRange(Tail(parts[1]))
             IN  IF ~old.ok THEN ChunkError
                 ELSE IF ~HasPrefix(parts[2], "+") THEN ChunkError
                 ELSE LET new == parseRange(Tail(parts[2]))
                      IN  IF ~new.ok THEN ChunkError
                          ELSE [ok |-> TRUE,
                                oldStart |-> old.start, oldLines |-> old.count,
                                newStart |-> new.start, newLines |-> new.count]

\* the loop of addLineNumbersToNewLines with a counter that removed lines
\* advance too
RECURSIVE annotateLoop_CountRemoved(_, _, _, _)
annotateLoop_CountRemoved(lines, res, newLineNum, inChunk) ==
    IF Len(lines) = 0 THEN res
    ELSE
      LET line == Head(lines)
          rest == Tail(lines)
      IN  IF HasPrefix(line, "@@")
          THEN LET h == parseChunkHeader(line)
               IN  IF ~h.ok THEN annotateLoop_CountRemoved(rest, Append(res, line), newLineNum, inChunk)
                   ELSE annotateLoop_CountRemoved(rest, Append(res, line), h.newStart, TRUE)
          ELSE IF ~inChunk THEN annotateLoop_CountRemoved(rest, Append(res, line), newLineNum, inChunk)
          ELSE IF Len(line) = 0 THEN annotateLoop_CountRemoved(rest, Append(res, line), newLineNum + 1, inChunk)
          ELSE IF Head(line) = "+"
          THEN annotateLoop_CountRemoved(rest, Append(res, Itoa(newLineNum) \o " +" \o Tail(line)),
                                         newLineNum + 1, inChunk)
          ELSE IF Head(line) = "-"
          THEN annotateLoop_CountRemoved(rest, Append(res, "   -" \o Tail(line)), newLineNum + 1, inChunk)
          ELSE IF Head(line) = " "
          THEN annotateLoop_CountRemoved(rest, Append(res, Itoa(newLineNum) \o "  " \o Tail(line)),
                                         newLineNum + 1, inChunk)
          ELSE annotateLoop_CountRemoved(rest, Append(res, line), newLineNum,
                                         IF HasPrefix(line, DiffGitPrefix) THEN FALSE ELSE inChunk)

\* the loop of addLineNumbersToNewLines leaving the hunk at a header that
\* does not parse
RECURSIVE annotateLoop_BadHeaderEndsChunk(_, _, _, _)
annotateLoop_BadHeaderEndsChunk(lines, res, newLineNum, inChunk) ==
    IF Len(lines) = 0 THEN res
    ELSE
      LET line == Head(lines)
          rest == Tail(lines)
      IN  IF HasPrefix(line, "@@")
          THEN LET h == parseChunkHeader(line)
               IN  IF ~h.ok THEN annotateLoop_BadHeaderEndsChunk(rest, Append(res, line), newLineNum, FALSE)
                   ELSE annotateLoop_BadHeaderEndsChunk(rest, Append(res, line), h.newStart, TRUE)
          ELSE IF ~inChunk THEN annotateLoop_BadHeaderEndsChunk(rest, Append(res, line), newLineNum, inChunk)
          ELSE IF Len(line) = 0 THEN annotateLoop_BadHeaderEndsChunk(rest, Append(res, line), newLineNum + 1, inChunk)
          ELSE IF Head(line) = "+"
          THEN annotateLoop_BadHeaderEndsChunk(rest, Append(res, Itoa(newLineNum) \o " +" \o Tail(line)),
                                               newLineNum + 1, inChunk)
          ELSE IF Head(line) = "-"
          THEN annotateLoop_BadHeaderEndsChunk(rest, Append(res, "   -" \o Tail(line)), newLineNum, inChunk)
          ELSE IF Head(line) = " "
          THEN annotateLoop_BadHeaderEndsChunk(rest, Append(res, Itoa(newLineNum) \o "  " \o Tail(line)),
                                               newLineNum + 1, inChunk)
          ELSE annotateLoop_BadHeaderEndsChunk(rest, Append(res, line), newLineNum,
                                               IF HasPrefix(line, DiffGitPrefix) THEN FALSE ELSE inChunk)

\* the loop of addLineNumbersToNewLines
RECURSIVE annotateLoop(_, _, _, _)
annotateLoop(lines, res, newLineNum, inChunk) ==
    IF Len(lines) = 0 THEN res
    ELSE
      LET line == Head(lines)
          rest == Tail(lines)
      IN  IF HasPrefix(line, "@@")
          THEN LET h == parseChunkHeader(line)
               IN  IF ~h.ok THEN annotateLoop(rest, Append(res, line), newLineNum, inChunk)
                   ELSE annotateLoop(rest, Append(res, line), h.newStart, TRUE)
          ELSE IF ~inChunk THEN annotateLoop(rest, Append(res, line), newLineNum, inChunk)
          ELSE IF Len(line) = 0 THEN annotateLoop(rest, Append(res, line), newLineNum + 1, inChunk)
          ELSE IF Head(line) = "+"
          THEN annotateLoop(rest, Append(res, Itoa(newLineNum) \o " +" \o Tail(line)),
                            newLineNum + 1, inChunk)
          ELSE IF Head(line) = "-"
          THEN annotateLoop(rest, Append(res, "   -" \o Tail(line)), newLineNum, inChunk)
          ELSE IF Head(line) = " "
          THEN annotateLoop(rest, Append(res, Itoa(newLineNum) \o "  " \o Tail(line)),
                            newLineNum + 1, inChunk)
          ELSE annotateLoop(rest, Append(res, line), newLineNum,
                            IF HasPrefix(line, DiffGitPrefix) THEN FALSE ELSE inChunk)

addLineNumbersToNewLines(diffContent) ==
    Join(annotateLoop(Split(diffContent, "\n"), <<>>, 0, FALSE), "\n")

(***************************************************************************)
(* Inputs of CompressDiff: an optional preamble followed by up to MaxFiles *)
(* file sections, joined with newlines; budgets from small sets.           *)
(***************************************************************************)
SecMixed == "diff --git a/m.go b/m.go\n@@ -1 +1 @@\n-x\n+y"
SecDeleted == "diff --git a/d.go b/d.go\n-x"
SecImage == "diff --git a/i.png b/i.png\nBinary files differ"
SecAdded == "diff --git a/s.go b/s.go\n+y"
SecMalformed == "diff --git\n+q"
SecScript == "diff --git a/t.py b/t.py\n+p q"

SectionPool == {SecMixed, SecDeleted, SecImage, SecAdded, SecMalformed, SecScript}

Preambles == {"", "From 1a2b"}

RawDiffOf(pre, secs) == Join((IF pre = "" THEN <<>> ELSE <<pre>>) \o secs, "\n")

TotalBudgets == {MaxTotalBudget - 5, MaxTotalBudget}
FileBudgets == {MaxFileBudget - 5, MaxFileBudget}

IdleDiff ==
    /\ rawDiff = "" /\ maxWords = 1 /\ maxFileWords = 1 /\ parsed = <<>> /\ files = <<>>
    /\ result = Nil /\ err = Nil /\ pc = "idle" /\ ret = NoReturn
    /\ run = 0 /\ firstOut = Nil /\ firstRet = NoReturn

IdleDel ==
    /\ hRaw = "" /\ hFlavor = "raw" /\ hContent = "" /\ hResult = FALSE /\ hpc = "idle"

IdleList ==
    /\ heap = <<>> /\ flFiles = <<>> /\ flBefore = <<>> /\ flMaxTotal = 1 /\ flMaxFile = 1
    /\ compressedFiles = <<>> /\ flResult = <<>> /\ flpc = "idle" /\ flRet = NoReturn

IdleOnly ==
    /\ dFile = <<>> /\ dResult = FALSE /\ dpc = "idle"

IdleAnnot ==
    /\ aIn = "" /\ aOut = Nil /\ aErr = Nil /\ apc = "idle"

IdleIndent ==
    /\ iBody = "" /\ iFenced = FALSE /\ iPre = "" /\ iSug = <<>> /\ iPost = "" /\ iLine = 0
    /\ iFetch = <<>> /\ iOut = Nil /\ iErr = Nil /\ ipc = "idle"

IdleComment ==
    /\ cHandler = "" /\ cBody = "" /\ cLine = <<>> /\ cAdjustedBody = "" /\ cAdjustErr = Nil
    /\ cAdjustCalls = 0 /\ cPosted = <<>> /\ cResult = Nil /\ cpc = "idle"

IdleCalls ==
    /\ fn = "idle"
    /\ fnArg = Nil
    /\ fnRes = Nil
    /\ fnpc = "idle"

IdleReply ==
    /\ rComments = <<>>
    /\ rStart = 0
    /\ rCurrent = 0
    /\ rVisited = {}
    /\ rRoot = 0
    /\ rErr = Nil
    /\ rCreated = <<>>
    /\ rpc = "idle"

IdleUpdate ==
    /\ uHandler = "idle"
    /\ uStored = <<>>
    /\ uLatest = Nil
    /\ uNew = ""
    /\ uUpdated = ""
    /\ uEdits = 0
    /\ uWritten = FALSE
    /\ uResult = Nil
    /\ upc = "idle"

InitDiff ==
    /\ IdleUpdate
    /\ IdleReply
    /\ IdleCalls
    /\ IdleComment
    /\ IdleIndent
    /\ IdleAnnot
    /\ IdleOnly
    /\ IdleDel
    /\ IdleList
    /\ \E n \in 0..MaxFiles : \E secs \in [1..n -> SectionPool] : \E pre \in Preambles :
          rawDiff = RawDiffOf(pre, secs)
    /\ maxWords \in TotalBudgets
    /\ maxFileWords \in FileBudgets
    /\ parsed = <<>>
    /\ files = <<>>
    /\ result = Nil
    /\ err = Nil
    /\ pc = "call"
    /\ ret = NoReturn
    /\ run = 1
    /\ firstOut = Nil
    /\ firstRet = NoReturn

\* lines 81-85 with the fast path re-serializing the parsed files
BeginStep_Rebuild(fs) ==
    /\ parsed' = fs
    /\ files' = fs
    /\ IF getTotalWords(fs) <= maxWords /\ ~hasOversizedFiles(fs, maxFileWords)
       THEN /\ result' = reconstructDiff(fs)
            /\ pc' = "done"
            /\ ret' = 0
       ELSE /\ pc' = "s1"
            /\ UNCHANGED <<result, ret>>
    /\ UNCHANGED <<rawDiff, maxWords, maxFileWords, err, run, firstOut, firstRet, notDiffVars>>

\* lines 81-85: return the input itself when the parsed files fit
BeginStep(fs) ==
    /\ parsed' = fs
    /\ files' = fs
    /\ IF getTotalWords(fs) <= maxWords /\ ~hasOversizedFiles(fs, maxFileWords)
       THEN /\ result' = rawDiff
            /\ pc' = "done"
            /\ ret' = 0
       ELSE /\ pc' = "s1"
            /\ UNCHANGED <<result, ret>>
    /\ UNCHANGED <<rawDiff, maxWords, maxFileWords, err, run, firstOut, firstRet, notDiffVars>>

\* CompressDiff lines 78-85
CompressDiff_Begin ==
    /\ pc = "call"
    /\ BeginStep(parseDiffIntoFiles(rawDiff))

\* the shared tail of strategies 1-3: return when within limits, else go on
StrategyStep(fs, n, next) ==
    /\ files' = fs
    /\ IF isWithinLimits(fs, maxWords, maxFileWords)
       THEN /\ result' = reconstructDiff(fs)
            /\ pc' = "done"
            /\ ret' = n
       ELSE /\ pc' = next
            /\ UNCHANGED <<result, ret>>
    /\ UNCHANGED <<rawDiff, maxWords, maxFileWords, parsed, err, run, firstOut, firstRet, notDiffVars>>

\* Strategy 1, lines 90-93
CompressDiff_Strategy1 ==
    /\ pc = "s1"
    /\ StrategyStep(filterSourceCodeFiles(files), 1, "s2")

\* Strategy 2, lines 96-99
CompressDiff_Strategy2 ==
    /\ pc = "s2"
    /\ StrategyStep(filterLargeFiles(files, maxFileWords), 2, "s3")

\* Strategy 3, lines 102-105
CompressDiff_Strategy3 ==
    /\ pc = "s3"
    /\ StrategyStep(filterDeletionOnlyFiles(files), 3, "s4")

\* lines 108-109 for the slice `fs` returned by trimToMaxWords
TrimStep(fs) ==
    /\ files' = fs
    /\ result' = reconstructDiff(fs)

\* Strategy 4, lines 108-109
CompressDiff_Strategy4 ==
    /\ pc = "s4"
    /\ \E sorted \in SortedByWordsDesc(files) :
          TrimStep(trimToMaxWords(files, sorted, maxWords))
    /\ pc' = "done"
    /\ ret' = 4
    /\ UNCHANGED <<rawDiff, maxWords, maxFileWords, parsed, err, run, firstOut, firstRet, notDiffVars>>

\* the caller feeds the returned diff to CompressDiff once more
CompressDiff_Again ==
    /\ pc = "done"
    /\ run = 1
    /\ rawDiff' = result
    /\ firstOut' = result
    /\ firstRet' = ret
    /\ run' = 2
    /\ pc' = "call"
    /\ parsed' = <<>>
    /\ files' = <<>>
    /\ result' = Nil
    /\ ret' = NoReturn
    /\ UNCHANGED <<maxWords, maxFileWords, err, notDiffVars>>

NextDiff ==
    \/ CompressDiff_Begin
    \/ CompressDiff_Strategy1
    \/ CompressDiff_Strategy2
    \/ CompressDiff_Strategy3
    \/ CompressDiff_Strategy4
    \/ CompressDiff_Again

SpecDiff == InitDiff /\ [][NextDiff]_vars

(***************************************************************************)
(* hasOnlyDeletions on one file section, raw or line-annotated as in the   *)
(* get_pr_diff pipeline (addLineNumbersToNewLines, then CompressDiff).     *)
(***************************************************************************)
SectionHead == "diff --git a/f.go b/f.go\n--- a/f.go\n+++ b/f.go\n@@ -1,2 +1,2 @@"

BodyLines == {"-x", "-", "-return nil", "-x += 1", "+y", "+y z", " c", " --flag"}

InitDel ==
    /\ IdleUpdate
    /\ IdleReply
    /\ IdleCalls
    /\ IdleComment
    /\ IdleIndent
    /\ IdleAnnot
    /\ IdleOnly
    /\ IdleDiff
    /\ IdleList
    /\ \E n \in 1..MaxBodyLines : \E body \in [1..n -> BodyLines] :
          hRaw = Join(<<SectionHead>> \o body, "\n")
    /\ hFlavor \in {"raw", "annotated"}
    /\ hContent = ""
    /\ hResult = FALSE
    /\ hpc = "input"

\* the direct call of the unit tests: the raw section is the argument
PassRaw ==
    /\ hpc = "input"
    /\ hFlavor = "raw"
    /\ hContent' = hRaw
    /\ hpc' = "ready"
    /\ UNCHANGED <<hRaw, hFlavor, hResult, notDelVars>>

\* tools.go line 462: the diff is annotated before it is compressed
Annotate ==
    /\ hpc = "input"
    /\ hFlavor = "annotated"
    /\ hContent' = addLineNumbersToNewLines(hRaw)
    /\ hpc' = "ready"
    /\ UNCHANGED <<hRaw, hFlavor, hResult, notDelVars>>

\* parseDiffIntoFiles line 127 / 145
Classify ==
    /\ hpc = "ready"
    /\ hResult' = hasOnlyDeletions(hContent)
    /\ hpc' = "done"
    /\ UNCHANGED <<hRaw, hFlavor, hContent, notDelVars>>

NextDel ==
    \/ PassRaw
    \/ Annotate
    \/ Classify

SpecDel == InitDel /\ [][NextDel]_vars

(***************************************************************************)
(* FileListCompressor.  A *T field is <<>> when nil and <<v>> when it      *)
(* points to v; the records live in `heap` and slices hold addresses.      *)
(***************************************************************************)
Ptr(v) == <<v>>
NilPtr == <<>>

MarkerNonSource == "[Patch removed: non-source code file]"
MarkerTooLarge == "[Patch removed: file too large]"
MarkerDeletionOnly == "[Patch removed: deletion-only file]"
MarkerWordLimit == "[Patch removed: reached word limit]"

FL_countWords(text) == Len(Fields(text))

FL_sourceExts ==
    {".go", ".py", ".js", ".ts", ".jsx", ".tsx", ".java", ".c", ".cpp", ".h", ".hpp",
     ".cs", ".php", ".rb", ".rs", ".kt", ".swift", ".scala", ".clj", ".ml", ".hs",
     ".sh", ".bash", ".zsh", ".ps1", ".sql", ".r", ".m", ".pl", ".lua", ".dart",
     ".vue", ".svelte", ".elm", ".ex", ".exs", ".cr", ".nim", ".zig", ".v",
     ".html", ".css", ".scss", ".sass", ".less", ".xml", ".yaml", ".yml", ".json",
     ".toml", ".ini", ".cfg", ".conf", ".properties", ".env", ".gitignore",
     ".dockerfile", ".makefile", ".md", ".rst", ".txt"}

FL_specialFiles ==
    {"makefile", "dockerfile", "rakefile", "gemfile", "podfile",
     "readme", "license", "changelog", "contributing",
     "go.sum", "go.mod", "package-lock.json", "yarn.lock"}

FL_isSourceCodeFile(filename) ==
    \/ ToLower(Ext(filename)) \in FL_sourceExts
    \/ ToLower(Base(filename)) \in FL_specialFiles

\* lines 663-686 without the test *file.Changes > 0
isDeletionOnlyFile_ZeroChanges(file) ==
    IF file.Changes # NilPtr /\ file.Deletions # NilPtr
    THEN file.Changes[1] = file.Deletions[1]
    ELSE IF file.Patch = NilPtr THEN FALSE
    ELSE LET lines == Split(file.Patch[1], "\n")
         IN  ~\E i \in 1..Len(lines) :
                 HasPrefix(lines[i], "+") /\ ~HasPrefix(lines[i], "+++")

isDeletionOnlyFile(file) ==
    IF file.Changes # NilPtr /\ file.Deletions # NilPtr
    THEN file.Changes[1] = file.Deletions[1] /\ file.Changes[1] > 0
    ELSE IF file.Patch = NilPtr THEN FALSE
    ELSE LET lines == Split(file.Patch[1], "\n")
         IN  ~\E i \in 1..Len(lines) :
                 HasPrefix(lines[i], "+") /\ ~HasPrefix(lines[i], "+++")

\* the copy made at lines 478-494, leaving Status out
cloneCommitFile_NoStatus(file) ==
    [SHA |-> file.SHA, Filename |-> file.Filename, Additions |-> file.Additions,
     Deletions |-> file.Deletions, Changes |-> file.Changes, Status |-> NilPtr,
     RawURL |-> file.RawURL, BlobURL |-> file.BlobURL, ContentsURL |-> file.ContentsURL,
     PreviousFilename |-> file.PreviousFilename,
     Patch |-> IF file.Patch # NilPtr THEN Ptr(file.Patch[1]) ELSE NilPtr]

\* the copy made at lines 478-494
cloneCommitFile(file) ==
    [SHA |-> file.SHA, Filename |-> file.Filename, Additions |-> file.Additions,
     Deletions |-> file.Deletions, Changes |-> file.Changes, Status |-> file.Status,
     RawURL |-> file.RawURL, BlobURL |-> file.BlobURL, ContentsURL |-> file.ContentsURL,
     PreviousFilename |-> file.PreviousFilename,
     Patch |-> IF file.Patch # NilPtr THEN Ptr(file.Patch[1]) ELSE NilPtr]

AddrsOf(list) == {list[i] : i \in 1..Len(list)}

calculateTotalWords(h, list) ==
    SumSeq([i \in 1..Len(list) |->
              IF h[list[i]].Patch # NilPtr THEN FL_countWords(h[list[i]].Patch[1]) ELSE 0])

\* each remove* operator returns the heap after its loop
removePatchFromNonSourceFiles(h, list) ==
    [a \in DOMAIN h |->
        IF a \in AddrsOf(list) /\ h[a].Filename # NilPtr /\ ~FL_isSourceCodeFile(h[a].Filename[1])
        THEN [h[a] EXCEPT !.Patch = Ptr(MarkerNonSource)]
        ELSE h[a]]

removePatchFromLargeFiles(h, list, maxFile) ==
    [a \in DOMAIN h |->
        IF a \in AddrsOf(list) /\ h[a].Patch # NilPtr /\ FL_countWords(h[a].Patch[1]) > maxFile
        THEN [h[a] EXCEPT !.Patch = Ptr(MarkerTooLarge)]
        ELSE h[a]]

removePatchFromDeletionOnlyFiles(h, list) ==
    [a \in DOMAIN h |->
        IF a \in AddrsOf(list) /\ h[a].Patch # NilPtr /\ isDeletionOnlyFile(h[a])
        THEN [h[a] EXCEPT !.Patch = Ptr(MarkerDeletionOnly)]
        ELSE h[a]]

\* fileStats of keepOnlyImportantFilePatches, lines 582-602
fileStatsOf(h, list) ==
    LET withPatch == SelectSeq(list, LAMBDA a : h[a].Patch # NilPtr)
    IN  [i \in 1..Len(withPatch) |->
           LET file == h[withPatch[i]]
           IN  [file |-> withPatch[i],
                words |-> FL_countWords(file.Patch[1]),
                score |-> (IF file.Filename # NilPtr /\ FL_isSourceCodeFile(file.Filename[1])
                           THEN 1000 ELSE 0)
                          + (IF file.Additions # NilPtr THEN file.Additions[1] ELSE 0)]]

\* the comparison of lines 605-610
statLess(x, y) == IF x.score = y.score THEN x.words < y.words ELSE x.score > y.score

\* sort.Slice(fileStats, statLess): any arrangement in which no later element
\* is less than an earlier one (the sort is not stable)
SortedStats(stats) ==
    {s \in {[i \in 1..Len(stats) |-> stats[p[i]]] : p \in Arrangements(Len(stats))} :
        \A i, j \in 1..Len(s) : i < j => ~statLess(s[j], s[i])}

\* the loop of lines 613-621 comparing each file's words alone with the limit
RECURSIVE keepLoop_NoRunningTotal(_, _, _, _)
keepLoop_NoRunningTotal(h, stats, currentWords, maxTotal) ==
    IF Len(stats) = 0 THEN h
    ELSE LET stat == Head(stats)
         IN  IF stat.words <= maxTotal
             THEN keepLoop_NoRunningTotal(h, Tail(stats), currentWords + stat.words, maxTotal)
             ELSE keepLoop_NoRunningTotal([h EXCEPT ![stat.file].Patch = Ptr(MarkerWordLimit)],
                                          Tail(stats), currentWords, maxTotal)

\* the loop of lines 613-621
RECURSIVE keepLoop(_, _, _, _)
keepLoop(h, stats, currentWords, maxTotal) ==
    IF Len(stats) = 0 THEN h
    ELSE LET stat == Head(stats)
         IN  IF currentWords + stat.words <= maxTotal
             THEN keepLoop(h, Tail(stats), currentWords + stat.words, maxTotal)
             ELSE keepLoop([h EXCEPT ![stat.file].Patch = Ptr(MarkerWordLimit)],
                           Tail(stats), currentWords, maxTotal)

\* keepOnlyImportantFilePatches for one outcome `sorted` of the sort
keepOnlyImportantFilePatches(h, sorted, maxTotal) == keepLoop(h, sorted, 0, maxTotal)

(***************************************************************************)
(* Inputs of CompressFileList                                              *)
(***************************************************************************)
CommitFile(name, patch, additions, deletions, changes) ==
    [SHA |-> Ptr("1a2b"), Filename |-> name, Additions |-> additions,
     Deletions |-> deletions, Changes |-> changes, Status |-> Ptr("modified"),
     RawURL |-> Ptr("raw"), BlobURL |-> Ptr("blob"), ContentsURL |-> Ptr("contents"),
     PreviousFilename |-> NilPtr, Patch |-> patch]

FileMain == CommitFile(Ptr("main.go"), Ptr("@@ -1 +1 @@\n+a b"), Ptr(1), Ptr(0), Ptr(1))
FileImage == CommitFile(Ptr("i.png"), Ptr("Binary files a/i.png and b/i.png really do differ"),
                        Ptr(0), Ptr(0), Ptr(0))
FileOld == CommitFile(Ptr("old.go"), Ptr("@@ -1 +0,0 @@\n-x y z"), Ptr(0), Ptr(1), Ptr(1))
FileBig == CommitFile(Ptr("big.go"), Ptr("@@ -1 +1,2 @@\n+a b c d e f g"), Ptr(2), Ptr(0), Ptr(2))
FileNoStats == CommitFile(Ptr("t.py"), Ptr("-q r"), NilPtr, NilPtr, NilPtr)
FileNoPatch == CommitFile(Ptr("b.bin"), NilPtr, Ptr(0), Ptr(0), Ptr(0))
FileNoName == CommitFile(NilPtr, Ptr("+k l m"), Ptr(3), NilPtr, NilPtr)

FilePool == {FileMain, FileImage, FileOld, FileBig, FileNoStats, FileNoPatch, FileNoName}

ListTotalBudgets == {MaxListTotal - 4, MaxListTotal}
ListFileBudgets == {MaxListFile - 4, MaxListFile}

InitList ==
    /\ IdleUpdate
    /\ IdleReply
    /\ IdleCalls
    /\ IdleComment
    /\ IdleIndent
    /\ IdleAnnot
    /\ IdleOnly
    /\ IdleDiff
    /\ IdleDel
    /\ \E n \in 0..MaxListLen : \E recs \in [1..n -> FilePool] :
          /\ heap = recs
          /\ flFiles = [i \in 1..n |-> i]
          /\ flBefore = recs
    /\ flMaxTotal \in ListTotalBudgets
    /\ flMaxFile \in ListFileBudgets
    /\ compressedFiles = <<>>
    /\ flResult = <<>>
    /\ flpc = "call"
    /\ flRet = NoReturn

\* lines 462-496 with the copies left out: the strategies work on the
\* caller's own records
CompressFileList_Begin_NoClone ==
    /\ flpc = "call"
    /\ IF calculateTotalWords(heap, flFiles) <= flMaxTotal
       THEN /\ flResult' = flFiles
            /\ flpc' = "done"
            /\ flRet' = 0
            /\ UNCHANGED <<heap, compressedFiles>>
       ELSE /\ heap' = heap
            /\ compressedFiles' = flFiles
            /\ flpc' = "s1"
            /\ UNCHANGED <<flResult, flRet>>
    /\ UNCHANGED <<flFiles, flBefore, flMaxTotal, flMaxFile, notListVars>>

\* lines 462-496: count, return the argument when it fits, else clone
CompressFileList_Begin ==
    /\ flpc = "call"
    /\ IF calculateTotalWords(heap, flFiles) <= flMaxTotal
       THEN /\ flResult' = flFiles
            /\ flpc' = "done"
            /\ flRet' = 0
            /\ UNCHANGED <<heap, compressedFiles>>
       ELSE /\ heap' = heap \o [i \in 1..Len(flFiles) |-> cloneCommitFile(heap[flFiles[i]])]
            /\ compressedFiles' = [i \in 1..Len(flFiles) |-> Len(heap) + i]
            /\ flpc' = "s1"
            /\ UNCHANGED <<flResult, flRet>>
    /\ UNCHANGED <<flFiles, flBefore, flMaxTotal, flMaxFile, notListVars>>

\* the shared tail of strategies 1-3: return when the total fits, else go on
ListStrategyStep(h, n, next) ==
    /\ heap' = h
    /\ IF calculateTotalWords(h, compressedFiles) <= flMaxTotal
       THEN /\ flResult' = compressedFiles
            /\ flpc' = "done"
            /\ flRet' = n
       ELSE /\ flpc' = next
            /\ UNCHANGED <<flResult, flRet>>
    /\ UNCHANGED <<flFiles, flBefore, flMaxTotal, flMaxFile, compressedFiles, notListVars>>

\* Strategy 1, lines 501-504
CompressFileList_Strategy1 ==
    /\ flpc = "s1"
    /\ ListStrategyStep(removePatchFromNonSourceFiles(heap, compressedFiles), 1, "s2")

\* Strategy 2, lines 507-510
CompressFileList_Strategy2 ==
    /\ flpc = "s2"
    /\ ListStrategyStep(removePatchFromLargeFiles(heap, compressedFiles, flMaxFile), 2, "s3")

\* Strategy 3, lines 513-516
CompressFileList_Strategy3 ==
    /\ flpc = "s3"
    /\ ListStrategyStep(removePatchFromDeletionOnlyFiles(heap, compressedFiles), 3, "s4")

\* Strategy 4, lines 519-521
CompressFileList_Strategy4 ==
    /\ flpc = "s4"
    /\ \E sorted \in SortedStats(fileStatsOf(heap, compressedFiles)) :
          heap' = keepOnlyImportantFilePatches(heap, sorted, flMaxTotal)
    /\ flResult' = compressedFiles
    /\ flpc' = "done"
    /\ flRet' = 4
    /\ UNCHANGED <<flFiles, flBefore, flMaxTotal, flMaxFile, compressedFiles, notListVars>>

NextList ==
    \/ CompressFileList_Begin
    \/ CompressFileList_Strategy1
    \/ CompressFileList_Strategy2
    \/ CompressFileList_Strategy3
    \/ CompressFileList_Strategy4

SpecList == InitList /\ [][NextList]_vars

(***************************************************************************)
(* isDeletionOnlyFile on one record: counts present or absent, patch nil   *)
(* or made of up to MaxPatchLines lines                                    *)
(***************************************************************************)
PatchLines == {"+a", "-b", " c", "+++ b/f.go", "@@ -1 +1 @@"}

PatchTexts == {Join(ls, "\n") : ls \in UNION {[1..n -> PatchLines] : n \in 0..MaxPatchLines}}

StatValues == {NilPtr, Ptr(0), Ptr(1), Ptr(2)}

InitOnly ==
    /\ IdleUpdate
    /\ IdleReply
    /\ IdleCalls
    /\ IdleComment
    /\ IdleIndent
    /\ IdleAnnot
    /\ IdleDiff
    /\ IdleDel
    /\ IdleList
    /\ \E patch \in {NilPtr} \cup {Ptr(t) : t \in PatchTexts} :
       \E deletions \in StatValues : \E changes \in StatValues :
          dFile = CommitFile(Ptr("f.go"), patch, NilPtr, deletions, changes)
    /\ dResult = FALSE
    /\ dpc = "call"

IsDeletionOnlyFile_Call ==
    /\ dpc = "call"
    /\ dResult' = isDeletionOnlyFile(dFile)
    /\ dpc' = "done"
    /\ UNCHANGED <<dFile, notOnlyVars>>

NextOnly == IsDeletionOnlyFile_Call

SpecOnly == InitOnly /\ [][NextOnly]_vars

(***************************************************************************)
(* addLineNumbersToNewLines on a text of up to MaxAnnotLines lines         *)
(***************************************************************************)
AnnotLines ==
    {"@@ -1,2 +3,4 @@", "@@ -5 +9 @@ fn", "@@ bad", "@@ -1 +z @@",
     "+a", "-b", " c", "", "diff --git a/f b/f", "\\ No newline at end of file"}

InitAnnot ==
    /\ IdleUpdate
    /\ IdleReply
    /\ IdleCalls
    /\ IdleComment
    /\ IdleIndent
    /\ IdleOnly
    /\ IdleDiff
    /\ IdleDel
    /\ IdleList
    /\ \E n \in 0..MaxAnnotLines : \E ls \in [1..n -> AnnotLines] : aIn = Join(ls, "\n")
    /\ aOut = Nil
    /\ aErr = Nil
    /\ apc = "call"

\* lines 489-546; the only return statement returns a nil error
AddLineNumbers_Call ==
    /\ apc = "call"
    /\ aOut' = addLineNumbersToNewLines(aIn)
    /\ aErr' = Nil
    /\ apc' = "done"
    /\ UNCHANGED <<aIn, notAnnotVars>>

NextAnnot == AddLineNumbers_Call

SpecAnnot == InitAnnot /\ [][NextAnnot]_vars

(***************************************************************************)
(* Suggestion indentation (indent.go)                                      *)
(***************************************************************************)
\* strings.Index: the position of the first occurrence of sub in s, 0 when
\* there is none (positions count from 1)
IndexOf(s, sub) ==
    IF \E k \in 1..(Len(s) - Len(sub) + 1) : SubSeq(s, k, k + Len(sub) - 1) = sub
    THEN CHOOSE k \in 1..(Len(s) - Len(sub) + 1) :
            /\ SubSeq(s, k, k + Len(sub) - 1) = sub
            /\ \A j \in 1..(k - 1) : SubSeq(s, j, j + Len(sub) - 1) # sub
    ELSE 0

\* strings.TrimLeft(s, " \t")
RECURSIVE TrimLeftBlanks(_)
TrimLeftBlanks(s) ==
    IF Len(s) > 0 /\ Head(s) \in {" ", "\t"} THEN TrimLeftBlanks(Tail(s)) ELSE s

TrimPrefix(s, prefix) == IF HasPrefix(s, prefix) THEN Suffix(s, Len(prefix) + 1) ELSE s

\* strings.Replace(s, old, new, 1)
ReplaceFirst(s, old, new) ==
    LET k == IndexOf(s, old)
    IN  IF k = 0 THEN s
        ELSE SubSeq(s, 1, k - 1) \o new \o Suffix(s, k + Len(old))

getIndentation(line) == SubSeq(line, 1, Len(line) - Len(TrimLeftBlanks(line)))

RECURSIVE detectLoop(_)
detectLoop(lines) ==
    IF Len(lines) = 0 THEN ""
    ELSE IF TrimSpace(Head(lines)) = "" THEN detectLoop(Tail(lines))
    ELSE getIndentation(Head(lines))

detectBaseIndentation(codeBlock) == detectLoop(Split(codeBlock, "\n"))

\* removeBaseIndentation with every leading blank removed
removeBaseIndentation_AllBlanks(codeBlock, baseIndentation) ==
    LET lines == Split(codeBlock, "\n")
    IN  Join([i \in 1..Len(lines) |->
                 IF TrimSpace(lines[i]) = "" THEN ""
                 ELSE TrimLeftBlanks(lines[i])], "\n")

removeBaseIndentation(codeBlock, baseIndentation) ==
    LET lines == Split(codeBlock, "\n")
    IN  Join([i \in 1..Len(lines) |->
                 IF TrimSpace(lines[i]) = "" THEN ""
                 ELSE TrimPrefix(lines[i], baseIndentation)], "\n")

\* applyBaseIndentation with the target put before blank lines too
applyBaseIndentation_EveryLine(codeBlock, targetIndentation) ==
    LET lines == Split(codeBlock, "\n")
    IN  Join([i \in 1..Len(lines) |-> targetIndentation \o lines[i]], "\n")

applyBaseIndentation(codeBlock, targetIndentation) ==
    LET lines == Split(codeBlock, "\n")
    IN  Join([i \in 1..Len(lines) |->
                 IF TrimSpace(lines[i]) = "" THEN ""
                 ELSE targetIndentation \o lines[i]], "\n")

\* the fence character is the backquote, which a TLA+ string cannot hold;
\* the model writes it "~"
suggestionStart == "~~~suggestion"
suggestionEnd == "~~~"

\* extractSuggestionBlock: the text between the opening fence (and the
\* newline after it) and the next closing fence
extractSuggestionBlock(body) ==
    LET found == IndexOf(body, suggestionStart)
        after == found + Len(suggestionStart)
        startIndex == IF after <= Len(body) /\ Char(body, after) = "\n" THEN after + 1 ELSE after
        endIndex == IndexOf(Suffix(body, startIndex), suggestionEnd)
    IN  IF found = 0 THEN [val |-> "", err |-> "no suggestion block found"]
        ELSE IF endIndex = 0 THEN [val |-> "", err |-> "suggestion block not properly terminated"]
        ELSE [val |-> SubSeq(body, startIndex, startIndex + endIndex - 2), err |-> Nil]

\* getFullSuggestionBlock: from the opening fence to the end of the closing one
getFullSuggestionBlock(body) ==
    LET startIndex == IndexOf(body, suggestionStart)
        searchStart == startIndex + Len(suggestionStart)
        endIndex == IndexOf(Suffix(body, searchStart), suggestionEnd)
    IN  IF startIndex = 0 THEN [val |-> "", err |-> "no suggestion block found"]
        ELSE IF endIndex = 0 THEN [val |-> "", err |-> "suggestion block not properly terminated"]
        ELSE [val |-> SubSeq(body, startIndex, searchStart + endIndex - 2 + Len(suggestionEnd)),
              err |-> Nil]

\* getOriginalCodeIndentation; fetch is what the two GitHub calls of lines
\* 127-150 end in: an error, or the decoded content of the file
getOriginalCodeIndentation(fetch, line) ==
    IF line < 1 THEN [val |-> "", err |-> "invalid line number"]
    ELSE IF fetch.err # Nil THEN [val |-> "", err |-> fetch.err]
    ELSE LET lines == Split(fetch.content, "\n")
         IN  IF line > Len(lines) THEN [val |-> "", err |-> "line number is out of range"]
             ELSE [val |-> getIndentation(lines[line]), err |-> Nil]

\* the tail of adjustSuggestionIndentation, lines 98-116
spliceSuggestion(body, suggestion, baseIndentation, correctIndentation) ==
    LET unindentedSuggestion == removeBaseIndentation(suggestion, baseIndentation)
        adjustedSuggestion == applyBaseIndentation(unindentedSuggestion, correctIndentation)
        originalSuggestionBlock == getFullSuggestionBlock(body)
        finalSuggestionBlock == "~~~suggestion\n" \o adjustedSuggestion \o "\n~~~"
    IN  IF originalSuggestionBlock.err # Nil THEN [val |-> body, err |-> Nil]
        ELSE [val |-> ReplaceFirst(body, originalSuggestionBlock.val, finalSuggestionBlock),
              err |-> Nil]

adjustSuggestionIndentation(fetch, line, body) ==
    LET extracted == extractSuggestionBlock(body)
        suggestion == TrimSpace(extracted.val)
        correctIndentation == getOriginalCodeIndentation(fetch, line)
        baseIndentation == detectBaseIndentation(suggestion)
    IN  IF extracted.err # Nil THEN [val |-> body, err |-> Nil]
        ELSE IF suggestion = "" THEN [val |-> body, err |-> Nil]
        ELSE IF correctIndentation.err # Nil
        THEN [val |-> "",
              err |-> "failed to get original code indentation: " \o correctIndentation.err]
        ELSE IF baseIndentation = "" THEN [val |-> body, err |-> Nil]
        ELSE spliceSuggestion(body, suggestion, baseIndentation, correctIndentation.val)

(***************************************************************************)
(* adjustSuggestionIndentation on a comment body, a line number and an     *)
(* answer of the GitHub API                                                *)
(***************************************************************************)
SuggestionLines == {"  x", "    y", "x", "", "\tz"}

BodyPrefixes == {"", "fix:\n"}
BodySuffixes == {"", "\nthanks"}

FencedBody(pre, sug, post) == pre \o "~~~suggestion\n" \o Join(sug, "\n") \o "\n~~~" \o post

UnfencedBodies == {"plain text", "~~~suggestion\n  x", "~~~go\n  x\n~~~"}

FetchOutcomes ==
    {[err |-> "failed to get file content", content |-> ""]}
        \cup {[err |-> Nil, content |-> c] : c \in {"a\n    b", "\tc\n  d\ne"}}

TargetLines == 0..MaxTargetLine

InitIndent ==
    /\ IdleUpdate
    /\ IdleReply
    /\ IdleCalls
    /\ IdleComment
    /\ IdleAnnot
    /\ IdleOnly
    /\ IdleDiff
    /\ IdleDel
    /\ IdleList
    /\ \/ /\ iFenced = TRUE
          /\ iPre \in BodyPrefixes
          /\ iPost \in BodySuffixes
          /\ \E n \in 1..MaxSuggestionLines : iSug \in [1..n -> SuggestionLines]
          /\ iBody = FencedBody(iPre, iSug, iPost)
       \/ /\ iFenced = FALSE
          /\ iPre = "" /\ iSug = <<>> /\ iPost = ""
          /\ iBody \in UnfencedBodies
    /\ iLine \in TargetLines
    /\ iFetch \in FetchOutcomes
    /\ iOut = Nil
    /\ iErr = Nil
    /\ ipc = "call"

AdjustSuggestion_Return(r) ==
    /\ iOut' = r.val
    /\ iErr' = r.err
    /\ ipc' = "done"
    /\ UNCHANGED <<iBody, iFenced, iPre, iSug, iPost, iLine, iFetch, notIndentVars>>

AdjustSuggestion_Call ==
    /\ ipc = "call"
    /\ AdjustSuggestion_Return(adjustSuggestionIndentation(iFetch, iLine, iBody))

NextIndent == AdjustSuggestion_Call

SpecIndent == InitIndent /\ [][NextIndent]_vars

(***************************************************************************)
(* The handlers of add_comment_to_pending_review (tools.go):               *)
(* QoderAddCommentToPendingReview (line 83) and AddCommentToPendingReview  *)
(* (line 1099).  The answers of the GitHub API are chosen in each step.    *)
(***************************************************************************)
CommentHandlers == {"QoderAddCommentToPendingReview", "AddCommentToPendingReview"}

CommentBodies == {"plain text", "~~~suggestion\n  x\n~~~", "~~~suggestion\nx\n~~~"}

CommentLines == {NilPtr} \cup {Ptr(n) : n \in TargetLines}

\* the footer appended to the body, lines 218-221 and 1236-1239; the
\* base64 payload of the first handler's link is left as a fixed token
Footer(handler) ==
    IF handler = "QoderAddCommentToPendingReview"
    THEN "\n\n---\n*Powered by Qoder* | [One-Click Qoder Fix](http://localhost:9080/reload-to-qoder?context=<context>)"
    ELSE "\n\n---\n*Powered by Qoder*"

InitComment ==
    /\ IdleUpdate
    /\ IdleReply
    /\ IdleCalls
    /\ IdleIndent
    /\ IdleAnnot
    /\ IdleOnly
    /\ IdleDiff
    /\ IdleDel
    /\ IdleList
    /\ cHandler \in CommentHandlers
    /\ cBody \in CommentBodies
    /\ cLine \in CommentLines
    /\ cAdjustedBody = ""
    /\ cAdjustErr = Nil
    /\ cAdjustCalls = 0
    /\ cPosted = <<>>
    /\ cResult = Nil
    /\ cpc = "call"

CommentReturn(how) ==
    /\ cResult' = how
    /\ cpc' = "done"

\* lines 109-115 and 1118-1126: decode the arguments, get the REST client
Comment_GetClient ==
    /\ cpc = "call"
    /\ \E outcome \in {"decode failed", "no client", "ok"} :
          IF outcome = "decode failed" THEN CommentReturn("tool error")
          ELSE IF outcome = "no client" THEN CommentReturn("error")
          ELSE cpc' = "adjust" /\ UNCHANGED cResult
    /\ UNCHANGED <<cHandler, cBody, cLine, cAdjustedBody, cAdjustErr, cAdjustCalls, cPosted,
                   notCommentVars>>

\* the call of adjustSuggestionIndentation and the fallback to params.Body
AdjustStep(r) ==
    /\ cAdjustedBody' = IF r.err # Nil THEN cBody ELSE r.val
    /\ cAdjustErr' = r.err
    /\ cAdjustCalls' = cAdjustCalls + 1
    /\ cpc' = "review"
    /\ UNCHANGED cResult

\* lines 117-129 (*params.Line is read whether or not a line was given) and
\* lines 1129-1147 (the call is made only when params.Line is not nil)
Comment_Adjust ==
    /\ cpc = "adjust"
    /\ IF cLine # NilPtr
       THEN \E fetch \in FetchOutcomes :
               AdjustStep(adjustSuggestionIndentation(fetch, cLine[1], cBody))
       ELSE IF cHandler = "QoderAddCommentToPendingReview"
       THEN /\ CommentReturn("panic: nil pointer dereference")
            /\ UNCHANGED <<cAdjustedBody, cAdjustErr, cAdjustCalls>>
       ELSE /\ cAdjustedBody' = cBody
            /\ cpc' = "review"
            /\ UNCHANGED <<cAdjustErr, cAdjustCalls, cResult>>
    /\ UNCHANGED <<cHandler, cBody, cLine, cPosted, notCommentVars>>

\* lines 131-187 and 1149-1204: GraphQL client, viewer, latest review
Comment_FindReview ==
    /\ cpc = "review"
    /\ \E outcome \in {"no client", "viewer query failed", "review query failed",
                       "no pending review", "review not pending", "pending"} :
          IF outcome = "no client" THEN CommentReturn("error")
          ELSE IF outcome = "pending" THEN cpc' = "post" /\ UNCHANGED cResult
          ELSE CommentReturn("tool error")
    /\ UNCHANGED <<cHandler, cBody, cLine, cAdjustedBody, cAdjustErr, cAdjustCalls, cPosted,
                   notCommentVars>>

\* lines 189-256 and 1206-1278: build the full body and add the thread
Comment_Post ==
    /\ cpc = "post"
    /\ \E mutated \in BOOLEAN :
          IF mutated
          THEN /\ cPosted' = Append(cPosted, cAdjustedBody \o Footer(cHandler))
               /\ CommentReturn("success")
          ELSE /\ CommentReturn("tool error")
               /\ UNCHANGED cPosted
    /\ UNCHANGED <<cHandler, cBody, cLine, cAdjustedBody, cAdjustErr, cAdjustCalls,
                   notCommentVars>>

NextComment ==
    \/ Comment_GetClient
    \/ Comment_Adjust
    \/ Comment_FindReview
    \/ Comment_Post

SpecComment == InitComment /\ [][NextComment]_vars

(***************************************************************************)
(* The constructors of the two compressors (diff_compressor.go)            *)
(***************************************************************************)
\* os.Getenv yields "" for a variable that is not set

\* NewDiffCompressor that takes every parsable override
NewDiffCompressor_AnyNumber(env) ==
    LET words == Atoi(env.PR_DIFF_MAX_WORDS)
        fileWords == Atoi(env.PR_DIFF_MAX_FILE_WORDS)
    IN  [maxWords |-> IF env.PR_DIFF_MAX_WORDS # "" /\ words.ok
                      THEN words.val ELSE 50000,
         maxFileWords |-> IF env.PR_DIFF_MAX_FILE_WORDS # "" /\ fileWords.ok
                          THEN fileWords.val ELSE 5000]

NewDiffCompressor(env) ==
    LET words == Atoi(env.PR_DIFF_MAX_WORDS)
        fileWords == Atoi(env.PR_DIFF_MAX_FILE_WORDS)
    IN  [maxWords |-> IF env.PR_DIFF_MAX_WORDS # "" /\ words.ok /\ words.val > 0
                      THEN words.val ELSE 50000,
         maxFileWords |-> IF env.PR_DIFF_MAX_FILE_WORDS # "" /\ fileWords.ok /\ fileWords.val > 0
                          THEN fileWords.val ELSE 5000]

NewFileListCompressor(env) ==
    LET words == Atoi(env.PR_DIFF_MAX_WORDS)
        fileWords == Atoi(env.PR_DIFF_MAX_FILE_WORDS)
    IN  [maxTotalWords |-> IF env.PR_DIFF_MAX_WORDS # "" /\ words.ok /\ words.val > 0
                           THEN words.val ELSE 50000,
         maxFileWords |-> IF env.PR_DIFF_MAX_FILE_WORDS # "" /\ fileWords.ok /\ fileWords.val > 0
                          THEN fileWords.val ELSE 5000]

(***************************************************************************)
(* qoder_update_comment (tools.go)                                         *)
(***************************************************************************)
startMarker == "<!-- QODER_BODY_START -->"
endMarker == "<!-- QODER_BODY_END -->"

\* replaceQoderContent that looks for the end marker behind the start marker
replaceQoderContent_EndAfterStart(originalBody, newContent) ==
    LET startIndex == IndexOf(originalBody, startMarker)
        rest == Suffix(originalBody, startIndex + Len(startMarker))
        endIndex == IF IndexOf(rest, endMarker) = 0 THEN 0
                    ELSE startIndex + Len(startMarker) - 1 + IndexOf(rest, endMarker)
    IN  IF startIndex = 0 THEN [val |-> "", err |-> "start marker not found"]
        ELSE IF endIndex = 0 THEN [val |-> "", err |-> "end marker not found"]
        ELSE [val |-> SubSeq(originalBody, 1, startIndex + Len(startMarker) - 1)
                         \o "\n" \o newContent \o "\n" \o Suffix(originalBody, endIndex),
              err |-> Nil]

replaceQoderContent(originalBody, newContent) ==
    LET startIndex == IndexOf(originalBody, startMarker)
        endIndex == IndexOf(originalBody, endMarker)
    IN  IF startIndex = 0 THEN [val |-> "", err |-> "start marker not found"]
        ELSE IF endIndex = 0 THEN [val |-> "", err |-> "end marker not found"]
        ELSE IF endIndex <= startIndex
             THEN [val |-> "", err |-> "end marker appears before start marker"]
        ELSE [val |-> SubSeq(originalBody, 1, startIndex + Len(startMarker) - 1)
                         \o "\n" \o newContent \o "\n" \o Suffix(originalBody, endIndex),
              err |-> Nil]

(***************************************************************************)
(* replyToReviewComment and findRootReviewComment (tools.go)               *)
(***************************************************************************)
\* what PullRequests.GetComment yields for an id: an error, or the comment
\* with its InReplyTo (nil, 0 or the id of another comment)
InitReply ==
    /\ IdleUpdate
    /\ IdleCalls
    /\ IdleComment
    /\ IdleIndent
    /\ IdleAnnot
    /\ IdleOnly
    /\ IdleDiff
    /\ IdleDel
    /\ IdleList
    /\ rComments \in [1..MaxComments ->
                         {[ok |-> FALSE, InReplyTo |-> NilPtr]}
                         \cup {[ok |-> TRUE, InReplyTo |-> p] :
                                  p \in {NilPtr} \cup {Ptr(k) : k \in 0..MaxComments}}]
    /\ rStart \in 1..MaxComments
    /\ rCurrent = rStart
    /\ rVisited = {}
    /\ rRoot = 0
    /\ rErr = Nil
    /\ rCreated = <<>>
    /\ rpc = "find"

\* an iteration of the loop that does not consult the visited map
FindRoot_Step_NoVisited ==
    /\ rpc = "find"
    /\ LET comment == rComments[rCurrent]
       IN  IF ~comment.ok
           THEN /\ rErr' = "failed to get comment"
                /\ rpc' = "done"
                /\ UNCHANGED <<rCurrent, rRoot, rVisited>>
           ELSE IF comment.InReplyTo = NilPtr \/ comment.InReplyTo[1] = 0
           THEN /\ rRoot' = rCurrent
                /\ rpc' = "create"
                /\ UNCHANGED <<rCurrent, rErr, rVisited>>
           ELSE /\ rCurrent' = comment.InReplyTo[1]
                /\ UNCHANGED <<rRoot, rErr, rpc, rVisited>>
    /\ UNCHANGED <<rComments, rStart, rCreated, notReplyVars>>

\* one iteration of the loop of findRootReviewComment, lines 1718-1738; an
\* error makes replyToReviewComment return at line 1652
FindRoot_Step ==
    /\ rpc = "find"
    /\ IF rCurrent \in rVisited
       THEN /\ rErr' = "circular reference detected in comment thread"
            /\ rpc' = "done"
            /\ UNCHANGED <<rCurrent, rRoot, rVisited>>
       ELSE /\ rVisited' = rVisited \cup {rCurrent}
            /\ LET comment == rComments[rCurrent]
               IN  IF ~comment.ok
                   THEN /\ rErr' = "failed to get comment"
                        /\ rpc' = "done"
                        /\ UNCHANGED <<rCurrent, rRoot>>
                   ELSE IF comment.InReplyTo = NilPtr \/ comment.InReplyTo[1] = 0
                   THEN /\ rRoot' = rCurrent
                        /\ rpc' = "create"
                        /\ UNCHANGED <<rCurrent, rErr>>
                   ELSE /\ rCurrent' = comment.InReplyTo[1]
                        /\ UNCHANGED <<rRoot, rErr, rpc>>
    /\ UNCHANGED <<rComments, rStart, rCreated, notReplyVars>>

\* lines 1655-1668: CreateCommentInReplyTo succeeds or fails
Reply_Create ==
    /\ rpc = "create"
    /\ \E created \in BOOLEAN :
          rCreated' = IF created THEN Append(rCreated, rRoot) ELSE rCreated
    /\ rpc' = "done"
    /\ UNCHANGED <<rComments, rStart, rCurrent, rVisited, rRoot, rErr, notReplyVars>>

NextReply ==
    \/ FindRoot_Step
    \/ Reply_Create

\* the handler runs to its return
SpecReply == InitReply /\ [][NextReply]_vars /\ WF_vars(NextReply)

(***************************************************************************)
(* updateIssueComment / updateReviewComment next to another editor         *)
(***************************************************************************)
\* a comment body with the Qoder markers (marked) or without them
CommentBody(pre, mid, post, marked) ==
    [pre |-> pre, mid |-> mid, post |-> post, marked |-> marked,
     text |-> IF marked THEN pre \o startMarker \o mid \o endMarker \o post
              ELSE pre \o mid \o post]

EditedBodies ==
    {CommentBody(pre, "old", post, marked) :
        pre \in {"", "Hi "}, post \in {"", " bye"}, marked \in BOOLEAN}

InitUpdate ==
    /\ IdleReply
    /\ IdleCalls
    /\ IdleComment
    /\ IdleIndent
    /\ IdleAnnot
    /\ IdleOnly
    /\ IdleDiff
    /\ IdleDel
    /\ IdleList
    /\ uHandler \in {"updateIssueComment", "updateReviewComment"}
    /\ \/ uLatest \in EditedBodies /\ uStored = Ptr(uLatest.text)
       \/ uLatest = CommentBody("", "", "", FALSE) /\ uStored = NilPtr
    /\ uNew \in {"", "new"}
    /\ uUpdated = ""
    /\ uEdits = 0
    /\ uWritten = FALSE
    /\ uResult = Nil
    /\ upc = "get"

UpdateReturn(how) ==
    /\ uResult' = how
    /\ upc' = "done"

\* lines 260-274 (295-309): the comment is fetched and the new body is
\* computed from what was fetched
UpdateComment_Get ==
    /\ upc = "get"
    /\ \/ /\ UpdateReturn("failed to get comment")
          /\ UNCHANGED uUpdated
       \/ IF uStored = NilPtr
          THEN UpdateReturn("comment body is nil") /\ UNCHANGED uUpdated
          ELSE LET replaced == replaceQoderContent(uStored[1], uNew)
               IN  IF replaced.err # Nil
                   THEN UpdateReturn("failed to replace content") /\ UNCHANGED uUpdated
                   ELSE /\ uUpdated' = replaced.val
                        /\ upc' = "edit"
                        /\ UNCHANGED uResult
    /\ UNCHANGED <<uHandler, uStored, uLatest, uNew, uEdits, uWritten, notUpdateVars>>

\* lines 276-291 (311-328): the whole body is written
UpdateComment_Edit ==
    /\ upc = "edit"
    /\ \/ /\ UpdateReturn("failed to update comment")
          /\ UNCHANGED <<uStored, uWritten>>
       \/ /\ uStored' = Ptr(uUpdated)
          /\ uWritten' = TRUE
          /\ UpdateReturn("updated")
    /\ UNCHANGED <<uHandler, uLatest, uNew, uUpdated, uEdits, notUpdateVars>>

\* somebody else edits the comment between the fetch and the write
OtherEdit ==
    /\ upc = "edit"
    /\ uEdits < MaxEdits
    /\ \E body \in EditedBodies :
          /\ body # uLatest
          /\ uLatest' = body
          /\ uStored' = Ptr(body.text)
    /\ uEdits' = uEdits + 1
    /\ UNCHANGED <<uHandler, uNew, uUpdated, uWritten, uResult, upc, notUpdateVars>>

NextUpdate ==
    \/ UpdateComment_Get
    \/ UpdateComment_Edit
    \/ OtherEdit

SpecUpdate == InitUpdate /\ [][NextUpdate]_vars

(***************************************************************************)
(* Single calls of the side-effect free functions                          *)
(***************************************************************************)
\* a line of a code block, written as its leading blanks and the rest
BlockLine(indent, text) == [indent |-> indent, text |-> text, line |-> indent \o text]

InitCalls ==
    /\ IdleUpdate
    /\ IdleReply
    /\ IdleComment
    /\ IdleIndent
    /\ IdleAnnot
    /\ IdleOnly
    /\ IdleDiff
    /\ IdleDel
    /\ IdleList
    /\ fnRes = Nil
    /\ fnpc = "call"
    /\ \/ /\ fn = "reindent"
          /\ \E n \in 1..MaxBlockLines :
                \E ls \in [1..n -> {BlockLine(i, t) : i \in {"", "  ", "    ", "\t"}, t \in {"", "a"}}] :
                   \E target \in {"", "  ", "\t"} :
                      fnArg = [lines |-> ls,
                               block |-> Join([k \in 1..n |-> ls[k].line], "\n"),
                               target |-> target]
       \/ /\ fn = "isSourceCodeFile"
          /\ \E dir \in {"", "src/", "docs/ReadMe/", "v1.go/"} :
                \E stem \in {"main", "yarn", "Yarn", "README", "Makefile", "Jenkinsfile",
                             "go", "package-lock", "Cargo"} :
                   \E ext \in {<<"", "">>, <<".go", ".go">>, <<".GO", ".go">>, <<".lock", ".lock">>,
                               <<".json", ".json">>, <<".Json", ".json">>, <<".sum", ".sum">>,
                               <<".png", ".png">>} :
                      fnArg = [dir |-> dir, stem |-> stem, ext |-> ext[1], lower |-> ext[2],
                               path |-> dir \o stem \o ext[1]]
       \/ /\ fn = "replaceQoderContent"
          /\ \E n \in 0..MaxBodySegments :
                \E segs \in [1..n -> {"intro ", startMarker, endMarker, "old"}] :
                   \E newContent \in {"", "new"} :
                      fnArg = [segs |-> segs, body |-> Join(segs, ""), newContent |-> newContent]
       \/ /\ fn = "parseChunkHeader"
          /\ \/ \E a, c \in {<<"0", 0>>, <<"1", 1>>, <<"12", 12>>} :
                   \E b, d \in {<<"", 1>>, <<",0", 0>>, <<",3", 3>>, <<",10", 10>>} :
                      \E tail \in {"", " func f()"} :
                         fnArg = [header |-> "@@ -" \o a[1] \o b[1] \o " +" \o c[1] \o d[1] \o " @@" \o tail,
                                  wellFormed |-> TRUE,
                                  oldStart |-> a[2], oldLines |-> b[2],
                                  newStart |-> c[2], newLines |-> d[2]]
             \/ \E header \in {"", "@@", "@@ -1,2 @@", "invalid header",
                               "@@ 1,2 +3,4 @@", "@@ -1,2 3,4 @@", "@@ +3,4 -1,2 @@",
                               "@@ -x +1 @@", "@@ -1,y +1 @@", "@@ -1 +z @@",
                               "@@ -1 +1,w @@", "@@ -1, +1 @@", "@@ - +1 @@"} :
                   fnArg = [header |-> header, wellFormed |-> FALSE]
       \/ /\ fn \in {"NewDiffCompressor", "NewFileListCompressor"}
          /\ \E words, fileWords \in {<<"", 0>>, <<"abc", 0>>, <<"12x", 0>>, <<" 4", 0>>, <<"1.5", 0>>,
                                      <<"0", 0>>, <<"-3", 0>>, <<"7", 7>>, <<"+9", 9>>, <<"060", 60>>} :
                fnArg = [env |-> [PR_DIFF_MAX_WORDS |-> words[1],
                                  PR_DIFF_MAX_FILE_WORDS |-> fileWords[1]],
                         words |-> words[2], fileWords |-> fileWords[2]]
       \/ /\ fn = "trimToMaxWords"
          /\ \E n \in 0..MaxTrimFiles :
                \E counts \in [1..n -> 1..MaxTrimWords] :
                   \E maxTotal \in 1..(2 * MaxTrimWords) :
                      fnArg = [files |-> [i \in 1..n |->
                                             [Path |-> Char("abcdefgh", i) \o ".go",
                                              Content |-> "",
                                              WordCount |-> counts[i],
                                              IsSourceCode |-> TRUE,
                                              HasOnlyDeletions |-> FALSE]],
                               maxWords |-> maxTotal]

CallReturn(res) ==
    /\ fnpc = "call"
    /\ fnRes' = res
    /\ fnpc' = "done"
    /\ UNCHANGED <<fn, fnArg, notCallVars>>

\* part_003 lines 95, 103, 104: the base indentation is detected, removed
\* and replaced, here once by itself and once by the target
Reindent_Call ==
    /\ fn = "reindent"
    /\ LET b == detectBaseIndentation(fnArg.block)
           unindented == removeBaseIndentation(fnArg.block, b)
       IN  CallReturn([base |-> b,
                       restored |-> applyBaseIndentation(unindented, b),
                       adjusted |-> applyBaseIndentation(unindented, fnArg.target)])

\* diff_compressor.go lines 177-277
IsSourceCodeFile_Call ==
    /\ fn = "isSourceCodeFile"
    /\ CallReturn(isSourceCodeFile(fnArg.path))

\* tools.go lines 332-355
ReplaceQoderContent_Call ==
    /\ fn = "replaceQoderContent"
    /\ CallReturn(replaceQoderContent(fnArg.body, fnArg.newContent))

\* tools.go lines 549-606
ParseChunkHeader_Call ==
    /\ fn = "parseChunkHeader"
    /\ CallReturn(parseChunkHeader(fnArg.header))

\* diff_compressor.go lines 29-49
NewDiffCompressor_Call ==
    /\ fn = "NewDiffCompressor"
    /\ CallReturn(NewDiffCompressor(fnArg.env))

\* diff_compressor.go lines 437-457
NewFileListCompressor_Call ==
    /\ fn = "NewFileListCompressor"
    /\ CallReturn(NewFileListCompressor(fnArg.env))

\* diff_compressor.go lines 352-379, for each outcome of sort.Slice
TrimToMaxWords_Call ==
    /\ fn = "trimToMaxWords"
    /\ \E sorted \in SortedByWordsDesc(fnArg.files) :
          CallReturn(trimToMaxWords(fnArg.files, sorted, fnArg.maxWords))

NextCalls ==
    \/ TrimToMaxWords_Call
    \/ NewDiffCompressor_Call
    \/ NewFileListCompressor_Call
    \/ ParseChunkHeader_Call
    \/ ReplaceQoderContent_Call
    \/ Reindent_Call
    \/ IsSourceCodeFile_Call

SpecCalls == InitCalls /\ [][NextCalls]_vars

(***************************************************************************)
(* Properties of CompressDiff                                              *)
(***************************************************************************)
Returned == pc = "done"

\* the file sections of a text, and their contents; the sections of the
\* input are `parsed`
SectionsOf(text) == parseDiffIntoFiles(text)
ContentsOf(fs) == [i \in 1..Len(fs) |-> fs[i].Content]
WordsOf(fs) == [i \in 1..Len(fs) |-> Len(Fields(fs[i].Content))]

Fits(fs) ==
    LET w == WordsOf(fs)
    IN  /\ SumSeq(w) <= maxWords
        /\ \A i \in 1..Len(w) : w[i] <= maxFileWords

RECURSIVE IsSubsequence(_, _)
IsSubsequence(a, b) ==
    IF Len(a) = 0 THEN TRUE
    ELSE IF Len(b) = 0 THEN FALSE
    ELSE IF Head(a) = Head(b) THEN IsSubsequence(Tail(a), Tail(b))
    ELSE IsSubsequence(a, Tail(b))

BudgetsRespected(in, out) ==
    /\ Fits(out)
    /\ (out = <<>> /\ in # <<>>) => result = ""

\* C1: the sections of every returned diff sum to at most maxWords words and
\* each has at most maxFileWords words; when the input had sections and none
\* of them is kept, the returned diff is the empty string.
C1_BudgetsRespected ==
    Returned => BudgetsRespected(parsed, SectionsOf(result))

TrimmedToSeveral(in, out) == Len(out) >= 2 /\ Len(out) < Len(in)

C1_Witness ==
    /\ Returned
    /\ ret = 4
    /\ TrimmedToSeveral(parsed, SectionsOf(result))

\* C2: the sections of every returned diff appear in the order they have in
\* the input diff.
C2_OrderPreserved ==
    Returned => IsSubsequence(ContentsOf(SectionsOf(result)), ContentsOf(parsed))

\* C3: when the parsed sections fit both budgets, the returned diff is the
\* input string itself.
C3_FastPathIdentity ==
    (Returned /\ Fits(parsed)) => result = rawDiff

C3_Witness ==
    /\ Returned
    /\ Fits(parsed)
    /\ Len(parsed) >= 2
    /\ rawDiff # Join(ContentsOf(parsed), "\n")

Keep(fs, Test(_)) == SelectSeq(fs, Test)
DropNonSource(fs) == Keep(fs, LAMBDA f : f.IsSourceCode)
DropOversized(fs) == Keep(fs, LAMBDA f : Len(Fields(f.Content)) <= maxFileWords)
DropDeletionOnly(fs) == Keep(fs, LAMBDA f : ~f.HasOnlyDeletions)

FirstSufficient(out, afterNonSource, afterOversized, afterDeletionOnly) ==
    IF Fits(afterNonSource)
    THEN ret = 1 /\ out = ContentsOf(afterNonSource)
    ELSE IF Fits(afterOversized)
    THEN ret = 2 /\ out = ContentsOf(afterOversized)
    ELSE IF Fits(afterDeletionOnly)
    THEN ret = 3 /\ out = ContentsOf(afterDeletionOnly)
    ELSE /\ ret = 4
         /\ \A i \in 1..Len(out) :
               \E j \in 1..Len(afterDeletionOnly) : out[i] = afterDeletionOnly[j].Content

\* C4: when compression is needed the returned sections are those left by
\* the first of drop-non-source, drop-oversized, drop-deletion-only that
\* fits both budgets; only when none fits does size trimming remove more.
C4_FirstSufficientFilter ==
    (Returned /\ ~Fits(parsed)) =>
        FirstSufficient(ContentsOf(SectionsOf(result)),
                        DropNonSource(parsed),
                        DropOversized(DropNonSource(parsed)),
                        DropDeletionOnly(DropOversized(DropNonSource(parsed))))

DeletionOnlyKept(in, out) ==
    /\ \E i \in 1..Len(out) : out[i].HasOnlyDeletions
    /\ Len(out) < Len(in)

\* a deletion-only source file survives because dropping oversized files sufficed
C4_Witness ==
    /\ Returned
    /\ ret = 2
    /\ DeletionOnlyKept(parsed, SectionsOf(result))

\* C5: compressing the output of CompressDiff again returns it unchanged.
C5_Idempotent ==
    (Returned /\ run = 2) => result = firstOut

C5_Witness ==
    /\ Returned
    /\ run = 2
    /\ firstRet \in 1..4
    /\ Len(SectionsOf(firstOut)) >= 2
    /\ result = firstOut

FirstLine(text) == Head(Split(text, "\n"))

LinesOf(text) == Split(text, "\n")

RawRemoved(line) == HasPrefix(line, "-") /\ ~HasPrefix(line, "---")
RawAdded(line) == HasPrefix(line, "+") /\ ~HasPrefix(line, "+++")

\* C7: on a raw section hasOnlyDeletions is true exactly when some line is a
\* removed line and no line is an added line.
C7_RawDeletionOnly ==
    (hpc = "done" /\ hFlavor = "raw") =>
        LET lines == LinesOf(hContent)
        IN  hResult = (/\ \E i \in 1..Len(lines) : RawRemoved(lines[i])
                       /\ \A i \in 1..Len(lines) : ~RawAdded(lines[i]))

AnnotatedRemoved(line) == HasPrefix(line, "   -")
AnnotatedAdded(line) ==
    \E k \in 1..Len(line) :
        /\ AllDigits(SubSeq(line, 1, k))
        /\ HasPrefix(Suffix(line, k + 1), " +")

\* C8: on an annotated section hasOnlyDeletions is true exactly when some
\* line has the removed form "   -content" and no line has the added form
\* "<num> +content".
C8_AnnotatedDeletionOnly ==
    (hpc = "done" /\ hFlavor = "annotated") =>
        LET lines == LinesOf(hContent)
        IN  hResult = (/\ \E i \in 1..Len(lines) : AnnotatedRemoved(lines[i])
                       /\ \A i \in 1..Len(lines) : ~AnnotatedAdded(lines[i]))

(***************************************************************************)
(* Properties of CompressFileList                                          *)
(***************************************************************************)
ListReturned == flpc = "done"

Markers == {MarkerNonSource, MarkerTooLarge, MarkerDeletionOnly, MarkerWordLimit}

OtherFields == {"SHA", "Filename", "Additions", "Deletions", "Changes", "Status",
                "RawURL", "BlobURL", "ContentsURL", "PreviousFilename"}

\* C9: the returned list has as many records as the input, in the same
\* order; every field but patch is the input record's; a patch that differs
\* from the input patch is one of the four markers.
C9_RedactionInvariant ==
    ListReturned =>
        /\ Len(flResult) = Len(flBefore)
        /\ \A i \in 1..Len(flResult) :
              LET out == heap[flResult[i]]
                  in == flBefore[i]
              IN  /\ \A f \in OtherFields : out[f] = in[f]
                  /\ out.Patch # in.Patch => (out.Patch # NilPtr /\ out.Patch[1] \in Markers)

C9_Witness ==
    /\ ListReturned
    /\ flRet = 4
    /\ \E i \in 1..Len(flResult) : heap[flResult[i]].Patch # flBefore[i].Patch
    /\ \E i \in 1..Len(flResult) :
          /\ heap[flResult[i]].Patch = flBefore[i].Patch
          /\ flBefore[i].Patch # NilPtr

KeptWords(h, list) ==
    SumSeq([i \in 1..Len(list) |->
              IF h[list[i]].Patch # NilPtr /\ h[list[i]].Patch[1] \notin Markers
              THEN Len(Fields(h[list[i]].Patch[1])) ELSE 0])

\* C10: in the returned list the patches that are not markers sum to at most
\* maxTotalWords words.
C10_KeptWordsWithinBudget ==
    ListReturned => KeptWords(heap, flResult) <= flMaxTotal

C10_Witness ==
    /\ ListReturned
    /\ flRet = 4
    /\ KeptWords(heap, flResult) > 0
    /\ \E i \in 1..Len(flResult) :
          heap[flResult[i]].Patch = Ptr(MarkerWordLimit)

\* C11: at every point of a call the caller's slice and every field of every
\* record it points to are what they were at the call; the fast path returns
\* the argument itself, every other return a slice of fresh records.
C11_CallerRecordsUntouched ==
    /\ flpc # "idle" =>
          /\ Len(flFiles) = Len(flBefore)
          /\ \A i \in 1..Len(flFiles) : heap[flFiles[i]] = flBefore[i]
    /\ (ListReturned /\ flRet = 0) => flResult = flFiles
    /\ (ListReturned /\ flRet # 0) =>
          /\ Len(flResult) = Len(flFiles)
          /\ AddrsOf(flResult) \cap AddrsOf(flFiles) = {}

C11_Witness ==
    /\ ListReturned
    /\ flRet \in 1..4
    /\ \E i \in 1..Len(flResult) :
          /\ heap[flFiles[i]].Patch # NilPtr
          /\ heap[flResult[i]].Patch # heap[flFiles[i]].Patch

\* C12: once a strategy has left the patches that are not markers within
\* maxTotalWords, the strategies after it redact nothing: no patch that is
\* not a marker is replaced from then on.
C12_StopsAtFirstSufficient ==
    [][(flpc \in {"s2", "s3", "s4"} /\ KeptWords(heap, compressedFiles) <= flMaxTotal) =>
          \A i \in 1..Len(compressedFiles) :
              LET before == heap[compressedFiles[i]].Patch
              IN  (before # NilPtr /\ before[1] \notin Markers) =>
                      heap'[compressedFiles[i]].Patch = before]_vars

\* the ranking the final fallback is described to use: only the files whose
\* patch is not yet a marker
unredactedStats(h, list) ==
    SelectSeq(fileStatsOf(h, list), LAMBDA st : h[st.file].Patch[1] \notin Markers)

\* walking a ranking: the first file that does not fit and every file after
\* it get the word-limit marker
RECURSIVE cutLoop(_, _, _, _, _)
cutLoop(h, stats, currentWords, maxTotal, cut) ==
    IF Len(stats) = 0 THEN h
    ELSE LET stat == Head(stats)
         IN  IF ~cut /\ currentWords + stat.words <= maxTotal
             THEN cutLoop(h, Tail(stats), currentWords + stat.words, maxTotal, FALSE)
             ELSE cutLoop([h EXCEPT ![stat.file].Patch = Ptr(MarkerWordLimit)],
                          Tail(stats), currentWords, maxTotal, TRUE)

\* C13: the final fallback leaves the records as a walk of the ranking of
\* the still-unredacted files does that redacts the first file that does
\* not fit and every lower-ranked file after it.
C13_FallbackCutsRanking ==
    [][flpc = "s4" =>
          \E sorted \in SortedStats(unredactedStats(heap, compressedFiles)) :
              heap' = cutLoop(heap, sorted, 0, flMaxTotal, FALSE)]_vars

(***************************************************************************)
(* Properties of isDeletionOnlyFile                                        *)
(***************************************************************************)
AddedPatchLine(line) == HasPrefix(line, "+") /\ ~HasPrefix(line, "+++")

\* C14: with both counts present the answer is deletions = changes and
\* changes > 0, whatever the patch; with a count absent and a patch present
\* the answer is that no patch line is an added line.
C14_DeletionOnlyFromCounts ==
    dpc = "done" =>
        IF dFile.Changes # NilPtr /\ dFile.Deletions # NilPtr
        THEN dResult = (dFile.Deletions[1] = dFile.Changes[1] /\ dFile.Changes[1] > 0)
        ELSE dFile.Patch # NilPtr =>
                 dResult = (\A i \in 1..Len(LinesOf(dFile.Patch[1])) :
                                ~AddedPatchLine(LinesOf(dFile.Patch[1])[i]))

C14_Witness ==
    /\ dpc = "done"
    /\ dFile.Changes = Ptr(1) /\ dFile.Deletions = Ptr(1)
    /\ dFile.Patch = Ptr("+a")
    /\ dResult

(***************************************************************************)
(* Properties of addLineNumbersToNewLines                                  *)
(***************************************************************************)
HunkHeader(line) == HasPrefix(line, "@@") /\ parseChunkHeader(line).ok

BadHeader(line) == HasPrefix(line, "@@") /\ ~parseChunkHeader(line).ok

\* the lines a hunk is made of
HunkLine(line) == line = "" \/ Head(line) \in {"+", "-", " "}

\* the lines that advance the new-file line counter
CountedLine(line) == line = "" \/ Head(line) \in {"+", " "}

\* what line i of `in` is to become when it belongs to the hunk whose header
\* is line h
NumberedLine(in, h, i) ==
    LET num == parseChunkHeader(in[h]).newStart
                 + Cardinality({k \in (h + 1)..(i - 1) : CountedLine(in[k])})
    IN  IF in[i] = "" THEN ""
        ELSE IF Head(in[i]) = "+" THEN Itoa(num) \o " +" \o Tail(in[i])
        ELSE IF Head(in[i]) = " " THEN Itoa(num) \o "  " \o Tail(in[i])
        ELSE "   -" \o Tail(in[i])

LinesNumbered(in, out) ==
    /\ Len(out) = Len(in)
    /\ \A i \in 1..Len(in) :
          /\ (\A k \in 1..i : ~HunkHeader(in[k])) => out[i] = in[i]
          /\ \A h \in 1..(i - 1) :
                (/\ HunkHeader(in[h])
                 /\ \A k \in (h + 1)..i : HunkLine(in[k])) => out[i] = NumberedLine(in, h, i)

\* C15: a line of a hunk is emitted with the number new-range start + the
\* added, context and empty lines before it in the hunk (added and context
\* lines) or as '   -<rest>' (removed lines); the lines before the first
\* hunk header are emitted as they are.
C15_LinesNumbered ==
    apc = "done" => LinesNumbered(LinesOf(aIn), LinesOf(aOut))

C15_Witness ==
    /\ apc = "done"
    /\ aIn = "@@ -5 +9 @@ fn\n c\n+a"
    /\ aOut = "@@ -5 +9 @@ fn\n9  c\n10 +a"

OtherLine(line) == line # "" /\ Head(line) \notin {"+", "-", " "} /\ ~HasPrefix(line, "@@")

UnchangedAfterOther(in, out) ==
    /\ Len(out) = Len(in)
    /\ \A j \in 1..Len(in) : \A i \in (j + 1)..Len(in) :
          (OtherLine(in[j]) /\ \A k \in (j + 1)..i : ~HasPrefix(in[k], "@@")) => out[i] = in[i]

\* C16: after a line that is not empty and starts with none of '+', '-',
\* ' ' and '@@', every line up to the next '@@' line is emitted as it is.
C16_OtherLineEndsHunk ==
    apc = "done" => UnchangedAfterOther(LinesOf(aIn), LinesOf(aOut))

Without(seq, i) == SubSeq(seq, 1, i - 1) \o SubSeq(seq, i + 1, Len(seq))

BadHeadersSkipped(in, out) ==
    /\ Len(out) = Len(in)
    /\ \A i \in 1..Len(in) :
          BadHeader(in[i]) =>
              /\ out[i] = in[i]
              /\ Without(out, i) = annotateLoop(Without(in, i), <<>>, 0, FALSE)

\* C17: the returned error is nil; a '@@' line that does not parse is
\* emitted as it is, and every other line is emitted as it would be were
\* that line not there.
C17_BadHeaderPassedThrough ==
    apc = "done" => (aErr = Nil /\ BadHeadersSkipped(LinesOf(aIn), LinesOf(aOut)))

C17_Witness ==
    /\ apc = "done"
    /\ aErr = Nil
    /\ aIn = "@@ -1,2 +3,4 @@\n@@ bad\n+a"
    /\ aOut = "@@ -1,2 +3,4 @@\n@@ bad\n3 +a"

(***************************************************************************)
(* Properties of adjustSuggestionIndentation                               *)
(***************************************************************************)
BlankLine(line) == TrimSpace(line) = ""

\* the indentation of the first non-blank line among `lines`
BaseOf(lines) ==
    IF \A i \in 1..Len(lines) : BlankLine(lines[i]) THEN ""
    ELSE LET first == CHOOSE i \in 1..Len(lines) :
                         ~BlankLine(lines[i]) /\ \A j \in 1..(i - 1) : BlankLine(lines[j])
         IN  getIndentation(lines[first])

TargetIndentationKnown ==
    /\ iLine >= 1
    /\ iFetch.err = Nil
    /\ iLine <= Len(LinesOf(iFetch.content))

TargetIndentation == getIndentation(LinesOf(iFetch.content)[iLine])

ReindentedLine(line, b, t) == t \o Suffix(line, Len(b) + 1)

\* C18: for a body with a suggestion block whose lines are non-blank and
\* start with the non-empty base indentation B, and a target line with
\* indentation T, the result is the body with B replaced by T in every
\* suggestion line and the text outside the fences as it was.
C18_SuggestionReindented ==
    (/\ ipc = "done"
     /\ iFenced
     /\ TargetIndentationKnown
     /\ BaseOf(iSug) # ""
     /\ \A i \in 1..Len(iSug) : ~BlankLine(iSug[i]) /\ HasPrefix(iSug[i], BaseOf(iSug)))
        => /\ iErr = Nil
           /\ iOut = FencedBody(iPre,
                                [i \in 1..Len(iSug) |->
                                    ReindentedLine(iSug[i], BaseOf(iSug), TargetIndentation)],
                                iPost)

\* C19: a body without a suggestion block, and a body whose suggestion has
\* an empty base indentation, come back as they are, with a nil error,
\* whatever the line number and the file.
C19_NoOpWithoutIndentation ==
    (ipc = "done" /\ (~iFenced \/ BaseOf(iSug) = "")) => (iOut = iBody /\ iErr = Nil)

(***************************************************************************)
(* Properties of add_comment_to_pending_review                             *)
(***************************************************************************)
\* C20: a failed adjustment does not end the call and leaves the original
\* body to be posted; a request without a line makes no adjustment attempt,
\* does not fail for that, and posts the original body.
C20_PostsOriginalBodyOnFailure ==
    /\ cAdjustErr # Nil =>
          /\ cpc \in {"review", "post", "done"}
          /\ cAdjustedBody = cBody
          /\ \A i \in 1..Len(cPosted) : cPosted[i] = cBody \o Footer(cHandler)
    /\ (cLine = NilPtr /\ cpc # "idle") =>
          /\ cAdjustCalls = 0
          /\ cResult # "panic: nil pointer dereference"
          /\ cpc \in {"review", "post"} => cAdjustedBody = cBody
          /\ \A i \in 1..Len(cPosted) : cPosted[i] = cBody \o Footer(cHandler)


(***************************************************************************)
(* Properties of the indentation functions                                 *)
(***************************************************************************)
Reindented == fn = "reindent" /\ fnpc = "done"

\* the indentation of the first line of `ls` that has text
FirstIndent(ls) ==
    IF \A i \in 1..Len(ls) : ls[i].text = "" THEN ""
    ELSE ls[CHOOSE i \in 1..Len(ls) :
               ls[i].text # "" /\ \A j \in 1..(i - 1) : ls[j].text = ""].indent

Retargeted(l, b, t) ==
    IF l.text = "" THEN ""
    ELSE IF HasPrefix(l.line, b) THEN t \o SubSeq(l.line, Len(b) + 1, Len(l.line))
    ELSE t \o l.line

LockFiles ==
    {"package-lock.json", "yarn.lock", "pnpm-lock.yaml", "go.sum",
     "Gemfile.lock", "Cargo.lock", "composer.lock", "poetry.lock"}

ListedNames == {"Dockerfile", "Makefile", "Jenkinsfile", "Rakefile", ".gitignore"}

\* C22: a path whose basename is a lock file of the deny-list is not source
\* code; otherwise a path with a listed source or config extension (in any
\* letter case) or a listed basename is; otherwise a path that contains
\* "readme" in any letter case is; every other path is not.
C22_SourceCodePrecedence ==
    (fn = "isSourceCodeFile" /\ fnpc = "done") =>
        fnRes = IF fnArg.stem \o fnArg.ext \in LockFiles THEN FALSE
                ELSE IF fnArg.lower \in (sourceExts \cup configFiles) THEN TRUE
                ELSE IF fnArg.stem \o fnArg.ext \in ListedNames THEN TRUE
                ELSE fnArg.dir = "docs/ReadMe/" \/ fnArg.stem = "README"

C22_Witness ==
    /\ fn = "isSourceCodeFile"
    /\ fnpc = "done"
    /\ fnArg.path = "docs/ReadMe/package-lock.json"
    /\ fnRes = FALSE


(***************************************************************************)
(* Properties of replaceQoderContent                                       *)
(***************************************************************************)
\* the position of the first segment equal to `marker`, 0 when there is none
FirstSeg(segs, marker) ==
    IF \E i \in 1..Len(segs) : segs[i] = marker
    THEN CHOOSE i \in 1..Len(segs) : segs[i] = marker /\ \A j \in 1..(i - 1) : segs[j] # marker
    ELSE 0

\* C23: replaceQoderContent succeeds exactly when the body holds a start
\* marker and an end marker and the first end marker lies after the first
\* start marker; the result is then the body up to and including that start
\* marker, a newline, the new content, a newline, and the body from that end
\* marker on; otherwise an error is returned.
C23_ReplacesBetweenMarkers ==
    (fn = "replaceQoderContent" /\ fnpc = "done") =>
        LET s == FirstSeg(fnArg.segs, startMarker)
            e == FirstSeg(fnArg.segs, endMarker)
        IN  IF s # 0 /\ e # 0 /\ e > s
            THEN /\ fnRes.err = Nil
                 /\ fnRes.val = Join(SubSeq(fnArg.segs, 1, s), "") \o "\n" \o fnArg.newContent
                                   \o "\n" \o Join(SubSeq(fnArg.segs, e, Len(fnArg.segs)), "")
            ELSE fnRes.err # Nil

C23_Witness ==
    /\ fn = "replaceQoderContent"
    /\ fnpc = "done"
    /\ fnArg.segs = <<"intro ", startMarker, "old", endMarker>>
    /\ fnArg.newContent = "new"
    /\ fnRes.err = Nil
    /\ fnRes.val = "intro <!-- QODER_BODY_START -->\nnew\n<!-- QODER_BODY_END -->"


(***************************************************************************)
(* Properties of parseChunkHeader                                          *)
(***************************************************************************)
\* C24: for a header "@@ -a[,b] +c[,d] @@..." parseChunkHeader returns
\* oldStart = a, oldLines = b, newStart = c and newLines = d, a count that
\* is left out being 1; a header with fewer than two range fields, with a
\* range that lacks its sign or with a number that does not parse is an
\* error.
C24_HeaderParsed ==
    (fn = "parseChunkHeader" /\ fnpc = "done") =>
        IF fnArg.wellFormed
        THEN fnRes = [ok |-> TRUE,
                      oldStart |-> fnArg.oldStart, oldLines |-> fnArg.oldLines,
                      newStart |-> fnArg.newStart, newLines |-> fnArg.newLines]
        ELSE ~fnRes.ok

C24_Witness ==
    /\ fn = "parseChunkHeader"
    /\ fnpc = "done"
    /\ fnArg.header = "@@ -12 +1,3 @@ func f()"
    /\ fnRes = [ok |-> TRUE, oldStart |-> 12, oldLines |-> 1, newStart |-> 1, newLines |-> 3]


(***************************************************************************)
(* Properties of NewDiffCompressor and NewFileListCompressor               *)
(***************************************************************************)
\* C25: both budgets of a new compressor are positive: 50000 in total and
\* 5000 per file unless the environment variable holds an integer above 0,
\* which is then the budget; an override that is empty, unparsable, zero
\* or negative leaves the default.
C25_BudgetsPositive ==
    /\ (fn = "NewDiffCompressor" /\ fnpc = "done") =>
          /\ fnRes.maxWords > 0 /\ fnRes.maxFileWords > 0
          /\ fnRes.maxWords = IF fnArg.words > 0 THEN fnArg.words ELSE 50000
          /\ fnRes.maxFileWords = IF fnArg.fileWords > 0 THEN fnArg.fileWords ELSE 5000
    /\ (fn = "NewFileListCompressor" /\ fnpc = "done") =>
          /\ fnRes.maxTotalWords > 0 /\ fnRes.maxFileWords > 0
          /\ fnRes.maxTotalWords = IF fnArg.words > 0 THEN fnArg.words ELSE 50000
          /\ fnRes.maxFileWords = IF fnArg.fileWords > 0 THEN fnArg.fileWords ELSE 5000

C25_Witness ==
    /\ fn = "NewDiffCompressor"
    /\ fnpc = "done"
    /\ fnArg.env = [PR_DIFF_MAX_WORDS |-> "-3", PR_DIFF_MAX_FILE_WORDS |-> "+9"]
    /\ fnRes = [maxWords |-> 50000, maxFileWords |-> 9]


(***************************************************************************)
(* Properties of DiffCompressor.trimToMaxWords                             *)
(***************************************************************************)
Trimmed == fn = "trimToMaxWords" /\ fnpc = "done"

WordsIn(fs, idx) == SumSeq([i \in 1..Len(fs) |-> IF i \in idx THEN fs[i].WordCount ELSE 0])

\* the positions in `fs` of the files of `res`
KeptIn(fs, res) == {i \in 1..Len(fs) : \E k \in 1..Len(res) : res[k] = fs[i]}

\* `res` holds the smallest files of `fs`: as many as fit into maxTotal
SmallestFirst(fs, res, maxTotal) ==
    LET kept == KeptIn(fs, res)
        dropped == (1..Len(fs)) \ kept
    IN  /\ Cardinality(kept) = Len(res)
        /\ \A k \in 1..Len(res) : \E i \in 1..Len(fs) : res[k] = fs[i]
        /\ \A k \in 1..(Len(res) - 1) : res[k].WordCount <= res[k + 1].WordCount
        /\ \A i \in kept : \A j \in dropped : fs[i].WordCount <= fs[j].WordCount
        /\ WordsIn(fs, kept) <= maxTotal
        /\ \A j \in dropped : WordsIn(fs, kept) + fs[j].WordCount > maxTotal
        /\ \A other \in SUBSET (1..Len(fs)) :
              WordsIn(fs, other) <= maxTotal => Cardinality(other) <= Cardinality(kept)

\* C26: when the files exceed maxWords in total, trimToMaxWords keeps the
\* longest run of files in ascending word-count order whose sum is within
\* maxWords, which is the largest number of files that fit and leaves no
\* dropped file that would still fit; otherwise it returns the files as
\* they are.
C26_TrimKeepsSmallestFirst ==
    Trimmed =>
        IF WordsIn(fnArg.files, 1..Len(fnArg.files)) <= fnArg.maxWords
        THEN fnRes = fnArg.files
        ELSE SmallestFirst(fnArg.files, fnRes, fnArg.maxWords)

C26_Witness ==
    /\ Trimmed
    /\ Len(fnArg.files) = 3
    /\ fnArg.files[1].WordCount = 3 /\ fnArg.files[2].WordCount = 4 /\ fnArg.files[3].WordCount = 1
    /\ fnArg.maxWords = 5
    /\ fnRes = <<fnArg.files[3], fnArg.files[1]>>


(***************************************************************************)
(* Markers under the later strategies of CompressFileList                  *)
(***************************************************************************)
\* C29: a patch that a strategy of CompressFileList replaced by a marker is
\* not changed by any later step: the record keeps the marker of the first
\* strategy that redacted it.
C29_MarkerNeverRelabelled ==
    [][\A a \in 1..Len(heap) :
          (heap[a].Patch # NilPtr /\ heap[a].Patch[1] \in Markers)
              => heap'[a].Patch = heap[a].Patch]_vars


(***************************************************************************)
(* Properties of replyToReviewComment                                      *)
(***************************************************************************)
\* where the in_reply_to links lead from comment `id` within `fuel`
\* comments: to a comment without parent ("root"), to one that cannot be
\* fetched ("missing"), or nowhere ("cycle")
RECURSIVE FollowLinks(_, _)
FollowLinks(id, fuel) ==
    IF fuel = 0 THEN [end |-> "cycle", id |-> 0]
    ELSE IF ~rComments[id].ok THEN [end |-> "missing", id |-> id]
    ELSE IF rComments[id].InReplyTo \in {NilPtr, Ptr(0)} THEN [end |-> "root", id |-> id]
    ELSE FollowLinks(rComments[id].InReplyTo[1], fuel - 1)

RootOrError ==
    rpc \in {"create", "done"} =>
        LET links == FollowLinks(rStart, MaxComments)
        IN  /\ (rErr = Nil) <=> (links.end = "root")
            /\ rErr = Nil => rRoot = links.id
            /\ rErr # Nil => rCreated = <<>>
            /\ Len(rCreated) <= 1
            /\ \A i \in 1..Len(rCreated) : rCreated[i] = links.id

\* C28: replyToReviewComment always returns; findRootReviewComment yields
\* the comment without parent that the in_reply_to links lead to, or an
\* error when a comment cannot be fetched or an id comes up twice; a reply
\* is created only in reply to that root, and none when there is an error.
C28_RootFoundAndTerminates ==
    /\ [](rpc # "idle" => RootOrError)
    /\ rpc # "idle" => <>(rpc = "done")

C28_Witness ==
    /\ rpc = "done"
    /\ rStart = 3
    /\ rComments[3].ok /\ rComments[3].InReplyTo = Ptr(2)
    /\ rComments[2].ok /\ rComments[2].InReplyTo = Ptr(1)
    /\ rComments[1].ok /\ rComments[1].InReplyTo = Ptr(0)
    /\ rCreated = <<1>>


(***************************************************************************)
(* Properties of qoder_update_comment                                      *)
(***************************************************************************)
\* C30: an update changes only the text between the markers of the stored
\* comment: once it has written, the stored comment is the latest edit's
\* text before the start marker and after the end marker around the new
\* content, also when that edit was made between the update's read and its
\* write; a comment whose markers are missing is not written.
C30_OnlyBetweenMarkersChanges ==
    (upc = "done" /\ uStored # NilPtr) =>
        /\ uWritten =>
              uStored = Ptr(uLatest.pre \o startMarker \o "\n" \o uNew \o "\n"
                               \o endMarker \o uLatest.post)
        /\ (uEdits = 0 /\ ~uLatest.marked) => (~uWritten /\ uStored = Ptr(uLatest.text))

====
